---- MODULE Spec2Model ----
(***************************************************************************)
(* The vault program of MultiSig-vault-Solana as a state machine.  One     *)
(* persisted record (state.rs, Vault) is mutated by one request at a time; *)
(* every handler is a function from (record, inputs) to (result, record),  *)
(* and a request that returns an error leaves the record as it was,        *)
(* because the handlers serialize the record only on their success path.   *)
(***************************************************************************)
EXTENDS Integers, Sequences, FiniteSets, TLC

VARIABLES vault, now, lamports, overflow_checks, ext_calls, queued, paid, last

vars == <<vault, now, lamports, overflow_checks, ext_calls, queued, paid, last>>

(***************************************************************************)
(* Bounds of the model.                                                    *)
(***************************************************************************)
MaxTx == 1
MaxInvokeDepth == 2
MaxTime == 3
MaxVolume == 2
MaxLamports == 2
MaxProposals == 1
MaxLocks == 1
WordBits == 4

\* u64 arithmetic, scaled to WordBits bits
U64 == 2 ^ WordBits

BpsDenominator == 10000
U16 == 65536
VotingPower == 100

(***************************************************************************)
(* Principals (public keys) and the inputs the requests are drawn from.    *)
(***************************************************************************)
Authority == "auth"
Admin == "admin"
Principals == {"auth", "admin", "o1", "o2"}

OwnerLists == { <<>>, <<"o1">>, <<"o1", "o2">>, <<"o1", "o1">> }

Thresholds == 0 .. 3

\* The callers of the multisig requests: the authority, two owners-to-be.
MsCallers == {"auth", "o1", "o2"}

\* The signers of proposals and approvals: the principals that occur in the
\* owner lists; each of them is a non-owner under some of the lists.
Proposers == {"o1", "o2"}

\* The signer of a change of owners or of threshold: the handlers never read
\* who it is; one that is never an owner and one that can be.
Reconfigurers == {"auth", "o1"}

\* The executor of a transaction only has to sign: the handler never reads
\* who it is.
Executors == {"auth"}

\* The callers of the ledger requests: the authority and one other principal
\* (an owner once a multisig names it).
LedgerCallers == {"auth", "o1"}

\* Deposit takes any signer and WithdrawSOL reads none: one principal that is
\* not the authority stands for all.
Depositors == {"o1"}

\* The callers of PauseVault and UnpauseVault.
PauseCallers == {"admin", "auth"}

Mints == {"mintA", "mintB"}
Amounts == 0 .. 2
\* <<deposit_fee_bps, withdrawal_fee_bps>>
\* Fee rates over the whole of [0, 10000], in basis points
FeeRates == {0, 1, 100, 2500, 5000, 9999, 10000}

FeeSchedules == { <<0, 0>>, <<5000, 5000>> }

\* The callers of the governance requests and the configurations they submit.
GovCallers == {"auth", "o1"}
CancelCallers == {"o1", "admin"}
VoteTypes == {"For", "Against", "Abstain"}
QuorumThresholds == {100, 200}
ProposalThresholds == {0}
VotingPeriods == {1}
TimelockDelays == {1}
ExecutionThresholds == {6000}

\* Time locks: the beneficiary, the principals that claim, the sizes of a
\* lock, its duration and its optional cliff.
Beneficiaries == {"o1"}
ClaimCallers == {"o1", "o2"}
LockCallers == {"auth", "o2"}
LockAmounts == {2}
Durations == {2}
CliffDurations == {[some |-> FALSE], [some |-> TRUE, d |-> 1]}

\* Option<T>::None
None == [some |-> FALSE]

Range(s) == { s[i] : i \in DOMAIN s }

\* Vec::contains
Contains(s, x) == \E i \in DOMAIN s : s[i] = x

\* iter().position(): the first index holding x (1-based), 0 when absent
Position(s, x) ==
    IF Contains(s, x) THEN CHOOSE i \in DOMAIN s : s[i] = x /\ \A j \in 1 .. (i - 1) : s[j] # x
    ELSE 0

\* sort(); dedup(); unique_owners.len() != owners.len()
HasDuplicates(owners) == Cardinality(Range(owners)) # Len(owners)

\* signers.iter().filter(|&&signed| signed).count()
CountSigners(signers) == Cardinality({ i \in DOMAIN signers : signers[i] })

\* The targets a stored transaction can name: another program, or this
\* program itself with an ExecuteMultiSigTransaction { transaction_id } payload.
External == [program |-> "external", transaction_id |-> 0]
SelfExecute(k) == [program |-> "self", transaction_id |-> k]
Targets == {External} \cup { SelfExecute(k) : k \in 0 .. (MaxTx - 1) }

Result(res, v) == [res |-> res, vault |-> v]

(***************************************************************************)
(* process_initialize: the record after genesis.                           *)
(***************************************************************************)
InitVault ==
    [ authority |-> Authority,
      emergency_admin |-> Admin,
      paused |-> FALSE,
      supported_tokens |-> <<>>,
      token_balances |-> <<>>,
      fee_config |-> [deposit_fee_bps |-> 0, withdrawal_fee_bps |-> 0],
      total_value_locked |-> 0,
      total_fees_collected |-> 0,
      legacy_total_deposited |-> 0,
      governance_config |-> None,
      governance_proposals |-> <<>>,
      next_governance_proposal_id |-> 0,
      vote_records |-> <<>>,
      multi_sig |-> None,
      multi_sig_transactions |-> <<>>,
      time_locks |-> <<>>,
      legacy_mint |-> None ]

(***************************************************************************)
(* process_initialize_multi_sig                                            *)
(***************************************************************************)
InitializeMultiSig(v, caller, owners, threshold) ==
    IF v.authority # caller THEN Result("InsufficientAuthority", v)
    ELSE IF threshold = 0 \/ threshold > Len(owners) THEN Result("InvalidThreshold", v)
    ELSE IF HasDuplicates(owners) THEN Result("InvalidAccountData", v)
    ELSE Result("Ok",
        [v EXCEPT !.multi_sig = [some |-> TRUE, owners |-> owners, threshold |-> threshold]])

(***************************************************************************)
(* process_create_multi_sig_transaction                                    *)
(***************************************************************************)
\* process_create_multi_sig_transaction leaving the proposer's slot unset
CreateWithoutApproval(v, caller, target, accounts_empty) ==
    IF ~v.multi_sig.some THEN Result("MultisigNotInitialized", v)
    ELSE IF ~Contains(v.multi_sig.owners, caller) THEN Result("InvalidOwner", v)
    ELSE IF accounts_empty THEN Result("InvalidTransactionData", v)
    ELSE LET signers == [i \in 1 .. Len(v.multi_sig.owners) |-> FALSE]
             transaction == [ target |-> target,
                              signers |-> signers,
                              did_execute |-> FALSE,
                              proposer |-> caller ]
         IN Result("Ok",
                [v EXCEPT !.multi_sig_transactions = Append(@, transaction)])

CreateMultiSigTransaction(v, caller, target, accounts_empty) ==
    IF ~v.multi_sig.some THEN Result("MultisigNotInitialized", v)
    ELSE IF ~Contains(v.multi_sig.owners, caller) THEN Result("InvalidOwner", v)
    ELSE IF accounts_empty THEN Result("InvalidTransactionData", v)
    ELSE LET owner_index == Position(v.multi_sig.owners, caller)
             signers == [i \in 1 .. Len(v.multi_sig.owners) |-> i = owner_index]
             transaction == [ target |-> target,
                              signers |-> signers,
                              did_execute |-> FALSE,
                              proposer |-> caller ]
         IN Result("Ok",
                [v EXCEPT !.multi_sig_transactions = Append(@, transaction)])

\* ApproveMultiSigTransaction with the did_execute check left out.
ApproveExecutedToo(v, caller, transaction_id) ==
    IF ~v.multi_sig.some THEN Result("MultisigNotInitialized", v)
    ELSE IF transaction_id >= Len(v.multi_sig_transactions) THEN Result("TransactionNotFound", v)
    ELSE LET transaction == v.multi_sig_transactions[transaction_id + 1]
             owner_index == Position(v.multi_sig.owners, caller)
         IN IF owner_index = 0 THEN Result("InvalidOwner", v)
            ELSE IF owner_index > Len(transaction.signers) THEN Result("Panic", v)
            ELSE IF transaction.signers[owner_index] THEN Result("TransactionAlreadySigned", v)
            ELSE Result("Ok",
                [v EXCEPT !.multi_sig_transactions[transaction_id + 1].signers[owner_index] = TRUE])

(***************************************************************************)
(* process_approve_multi_sig_transaction.  Transaction ids are 0-based     *)
(* indexes into multi_sig_transactions.  signers[owner_index] is an        *)
(* indexing of a Vec: out of range it panics and the request aborts.       *)
(***************************************************************************)
ApproveMultiSigTransaction(v, caller, transaction_id) ==
    IF ~v.multi_sig.some THEN Result("MultisigNotInitialized", v)
    ELSE IF transaction_id >= Len(v.multi_sig_transactions) THEN Result("TransactionNotFound", v)
    ELSE LET transaction == v.multi_sig_transactions[transaction_id + 1]
             owner_index == Position(v.multi_sig.owners, caller)
         IN IF transaction.did_execute THEN Result("TransactionAlreadyExecuted", v)
            ELSE IF owner_index = 0 THEN Result("InvalidOwner", v)
            ELSE IF owner_index > Len(transaction.signers) THEN Result("Panic", v)
            ELSE IF transaction.signers[owner_index] THEN Result("TransactionAlreadySigned", v)
            ELSE Result("Ok",
                [v EXCEPT !.multi_sig_transactions[transaction_id + 1].signers[owner_index] = TRUE])

(***************************************************************************)
(* process_execute_multi_sig_transaction.  The handler checks did_execute  *)
(* and the approval count, builds the stored instruction, calls            *)
(* invoke_signed, and only after the call has returned Ok reloads the      *)
(* record from the account and writes did_execute.  The `?` on             *)
(* invoke_signed returns the callee's error before anything is written.    *)
(*                                                                         *)
(* The stored program_id may be this program: the call then enters         *)
(* process_instruction again, which dispatches the stored payload (here    *)
(* ExecuteMultiSigTransaction { transaction_id }) to this same handler     *)
(* while the outer call has not yet written did_execute.  `stack` holds    *)
(* the ids whose external call is in progress; the host bounds the nesting *)
(* of such calls.  The result carries, besides res and vault:              *)
(*   calls  the ids whose external call returned Ok, in order              *)
(*   reent  whether an execute of an id on the stack passed the            *)
(*          did_execute and threshold checks                               *)
(***************************************************************************)
ExecResult(res, v, calls, reent) ==
    [res |-> res, vault |-> v, calls |-> calls, reent |-> reent]

\* ExecuteChecks with the approval count not compared to the threshold.
ExecuteChecksNoThreshold(v, transaction_id, signer_ok) ==
    IF ~v.multi_sig.some THEN "MultisigNotInitialized"
    ELSE IF transaction_id >= Len(v.multi_sig_transactions) THEN "TransactionNotFound"
    ELSE IF v.multi_sig_transactions[transaction_id + 1].did_execute
         THEN "TransactionAlreadyExecuted"
    ELSE IF ~signer_ok THEN "InvalidAccountData"
    ELSE "Ok"

\* The checks made before the stored instruction is built and invoked.
ExecuteChecks(v, transaction_id, signer_ok) ==
    IF ~v.multi_sig.some THEN "MultisigNotInitialized"
    ELSE IF transaction_id >= Len(v.multi_sig_transactions) THEN "TransactionNotFound"
    ELSE LET transaction == v.multi_sig_transactions[transaction_id + 1]
             current_approvals == CountSigners(transaction.signers)
         IN IF transaction.did_execute THEN "TransactionAlreadyExecuted"
            ELSE IF current_approvals < v.multi_sig.threshold THEN "NotEnoughSigners"
            ELSE IF ~signer_ok THEN "InvalidAccountData"
            ELSE "Ok"

\* MarkExecuted with the write of did_execute lost.
MarkExecutedNotWritten(v, transaction_id) == v

\* Mark transaction as executed: the record is read again from the account
\* (as the callee left it) and did_execute is written.
MarkExecuted(v, transaction_id) ==
    [v EXCEPT !.multi_sig_transactions[transaction_id + 1].did_execute = TRUE]

\* AfterInvoke with did_execute written before the result of the call is looked at.
AfterInvokeEarlyWrite(v, transaction_id, call, here) ==
    IF call.res # "Ok"
    THEN ExecResult(call.res, MarkExecuted(v, transaction_id), <<>>, here \/ call.reent)
    ELSE ExecResult("Ok", MarkExecuted(call.vault, transaction_id),
            Append(call.calls, transaction_id), here \/ call.reent)

\* What follows invoke_signed: its error is returned by `?` with nothing
\* written; on Ok the record is reloaded and did_execute is written.
AfterInvoke(v, transaction_id, call, here) ==
    IF call.res # "Ok"
    THEN ExecResult(call.res, v, <<>>, here \/ call.reent)
    ELSE ExecResult("Ok", MarkExecuted(call.vault, transaction_id),
            Append(call.calls, transaction_id), here \/ call.reent)

RECURSIVE ExecuteMultiSigTransaction(_, _, _, _, _)
ExecuteMultiSigTransaction(v, transaction_id, signer_ok, ext_ok, stack) ==
    LET checks == ExecuteChecks(v, transaction_id, signer_ok)
    IN  IF checks # "Ok" THEN ExecResult(checks, v, <<>>, FALSE)
        ELSE LET transaction == v.multi_sig_transactions[transaction_id + 1]
                 here == Contains(stack, transaction_id)
                 \* invoke_signed(&ix, remaining_accounts, signer_seeds)
                 call ==
                    IF transaction.target.program = "external"
                    THEN ExecResult(IF ext_ok THEN "Ok" ELSE "ExternalError", v, <<>>, FALSE)
                    ELSE IF Len(stack) + 1 > MaxInvokeDepth
                    THEN ExecResult("CallDepth", v, <<>>, FALSE)
                    ELSE ExecuteMultiSigTransaction(v, transaction.target.transaction_id,
                             TRUE, ext_ok, Append(stack, transaction_id))
             IN AfterInvoke(v, transaction_id, call, here)

(***************************************************************************)
(* process_set_multi_sig_owners.  The multisig_signer account is read from *)
(* the account list and not used; the only check on `authority` is that it *)
(* signed.                                                                 *)
(***************************************************************************)
\* process_set_multi_sig_owners resetting the approvals of the stored transactions
SetOwnersClearsApprovals(v, caller, owners) ==
    IF ~v.multi_sig.some THEN Result("MultisigNotInitialized", v)
    ELSE IF HasDuplicates(owners) THEN Result("InvalidAccountData", v)
    ELSE LET threshold == IF Len(owners) < v.multi_sig.threshold
                          THEN Len(owners) ELSE v.multi_sig.threshold
         IN Result("Ok",
                [v EXCEPT !.multi_sig.threshold = threshold,
                          !.multi_sig.owners = owners,
                          !.multi_sig_transactions =
                              [i \in DOMAIN @ |->
                                  [@[i] EXCEPT !.signers = [k \in DOMAIN @ |-> FALSE]]]])

\* process_set_multi_sig_owners without the test for duplicates
SetOwnersUnchecked(v, caller, owners) ==
    IF ~v.multi_sig.some THEN Result("MultisigNotInitialized", v)
    ELSE LET threshold == IF Len(owners) < v.multi_sig.threshold
                          THEN Len(owners) ELSE v.multi_sig.threshold
         IN Result("Ok",
                [v EXCEPT !.multi_sig.threshold = threshold, !.multi_sig.owners = owners])

SetMultiSigOwners(v, caller, owners) ==
    IF ~v.multi_sig.some THEN Result("MultisigNotInitialized", v)
    ELSE IF HasDuplicates(owners) THEN Result("InvalidAccountData", v)
    ELSE LET threshold == IF Len(owners) < v.multi_sig.threshold
                          THEN Len(owners) ELSE v.multi_sig.threshold
         IN Result("Ok",
                [v EXCEPT !.multi_sig.threshold = threshold, !.multi_sig.owners = owners])

(***************************************************************************)
(* process_change_multi_sig_threshold                                      *)
(***************************************************************************)
ChangeMultiSigThreshold(v, caller, threshold) ==
    IF ~v.multi_sig.some THEN Result("MultisigNotInitialized", v)
    ELSE IF threshold = 0 \/ threshold > Len(v.multi_sig.owners)
        THEN Result("InvalidThreshold", v)
    ELSE Result("Ok", [v EXCEPT !.multi_sig.threshold = threshold])

(***************************************************************************)
(* processors/emergency.rs: process_pause_vault, process_unpause_vault     *)
(***************************************************************************)
PauseVault(v, caller) ==
    IF v.emergency_admin # caller THEN Result("InvalidAccountData", v)
    ELSE Result("Ok", [v EXCEPT !.paused = TRUE])

UnpauseVault(v, caller) ==
    IF v.emergency_admin # caller THEN Result("InvalidAccountData", v)
    ELSE Result("Ok", [v EXCEPT !.paused = FALSE])

(***************************************************************************)
(* The bodies the entrypoint of processor.rs dispatches PauseVault,        *)
(* UnpauseVault, TransferAuthority and UpdateEmergencyAdmin to: each logs  *)
(* a message and returns Ok(()); none reads an account or a signature.     *)
(***************************************************************************)
ProcessPauseVault(v, caller) == Result("Ok", v)

ProcessUnpauseVault(v, caller) == Result("Ok", v)

ProcessTransferAuthority(v, caller, new_authority) == Result("Ok", v)

ProcessUpdateEmergencyAdmin(v, caller, new_admin) == Result("Ok", v)

\* processors/admin.rs: the authority hands the vault over; the new
\* authority becomes the emergency admin as well.
TransferAuthority(v, caller, new_authority) ==
    IF v.authority # caller THEN Result("InvalidAccountData", v)
    ELSE Result("Ok", [v EXCEPT !.authority = new_authority,
                                !.emergency_admin = new_authority])

\* processors/admin.rs: the emergency admin names its successor.
UpdateEmergencyAdmin(v, caller, new_admin) ==
    IF v.emergency_admin # caller THEN Result("InvalidAccountData", v)
    ELSE Result("Ok", [v EXCEPT !.emergency_admin = new_admin])

(***************************************************************************)
(* The authorization guard of the processors/ handlers:                    *)
(*   if let Some(multi_sig) = &vault.multi_sig                             *)
(*        { multi_sig.authorities.contains(authority.key) }                *)
(*   else { vault.authority == *authority.key }                            *)
(***************************************************************************)
IsAuthorized(v, caller) ==
    IF v.multi_sig.some THEN Contains(v.multi_sig.owners, caller)
    ELSE v.authority = caller

(***************************************************************************)
(* u64 arithmetic.  `+=` and `-=` on u64 either abort the request (a       *)
(* build with overflow checks) or wrap (a build without): which one is a   *)
(* property of the build, held in overflow_checks.                         *)
(***************************************************************************)
Add64(a, b) == (a + b) % U64
Sub64(a, b) == (a - b + U64) % U64
AddOverflows(a, b) == a + b >= U64
SubOverflows(a, b) == a < b

\* The product of a u64 and a u16 taken in u128.  fee_bps keeps its 16 bits
\* while u64 is scaled to WordBits bits, so of the u128 range the model keeps
\* the part a u64 times a u16 can reach, U64 * U16: the u128 of the program
\* is wider than that (128 >= 64 + 16).
U128 == U64 * U16
Mul128(a, b) == (a * b) % U128
Mul128Overflows(a, b) == a * b >= U128

\* calculate_fee with the product taken in u64
CalculateFeeNarrow(amount, fee_bps) ==
    IF amount > 0 THEN (((amount * fee_bps) % U64) \div BpsDenominator) % U64 ELSE 0

\* (amount as u128 * fee_bps as u128 / 10000) as u64, 0 for amount 0
CalculateFee(amount, fee_bps) ==
    IF amount > 0 THEN (Mul128(amount, fee_bps) \div BpsDenominator) % U64 ELSE 0

\* iter().position(|b| b.mint == mint): 1-based, 0 when absent
MintIndex(entries, mint) ==
    IF \E i \in DOMAIN entries : entries[i].mint = mint
    THEN CHOOSE i \in DOMAIN entries :
            entries[i].mint = mint /\ \A j \in 1 .. (i - 1) : entries[j].mint # mint
    ELSE 0

\* supported_tokens.iter().find(|t| t.mint == token_mint && t.is_active)
IsSupportedActive(v, mint) ==
    \E i \in DOMAIN v.supported_tokens :
        v.supported_tokens[i].mint = mint /\ v.supported_tokens[i].is_active

\* token_balances.iter().find(|b| b.mint == token_mint).map(|b| b.balance).unwrap_or(0)
BalanceOf(v, mint) ==
    LET i == MintIndex(v.token_balances, mint)
    IN  IF i = 0 THEN 0 ELSE v.token_balances[i].balance

(***************************************************************************)
(* process_add_supported_token                                             *)
(***************************************************************************)
AddSupportedToken(v, caller, mint, create_ok) ==
    IF v.authority # caller THEN Result("InsufficientAuthority", v)
    ELSE IF MintIndex(v.supported_tokens, mint) # 0 THEN Result("InvalidAccountData", v)
    ELSE IF ~create_ok THEN Result("ExternalError", v)
    ELSE Result("Ok",
        [v EXCEPT !.supported_tokens = Append(@,
            [mint |-> mint, total_deposited |-> 0, total_withdrawn |-> 0, is_active |-> TRUE])])

(***************************************************************************)
(* processors/fees.rs: process_update_fee_config                           *)
(***************************************************************************)
UpdateFeeConfig(v, caller, deposit_fee_bps, withdrawal_fee_bps) ==
    IF ~IsAuthorized(v, caller) THEN Result("InvalidAccountData", v)
    ELSE Result("Ok",
        [v EXCEPT !.fee_config = [deposit_fee_bps |-> deposit_fee_bps,
                                  withdrawal_fee_bps |-> withdrawal_fee_bps]])

\* Deposit with the paused check left out.
DepositWhilePaused(v, caller, mint, amount, transfer_ok, t, checks) ==
    IF ~IsSupportedActive(v, mint) THEN Result("InvalidAccountData", v)
    ELSE LET deposit_fee == CalculateFee(amount, v.fee_config.deposit_fee_bps)
             net_deposit_amount == Sub64(amount, deposit_fee)
             s == MintIndex(v.supported_tokens, mint)
             b == MintIndex(v.token_balances, mint)
             token_balances ==
                IF b # 0
                THEN [v.token_balances EXCEPT
                        ![b].balance = Add64(@, net_deposit_amount),
                        ![b].last_updated = t]
                ELSE Append(v.token_balances,
                        [mint |-> mint, balance |-> net_deposit_amount, last_updated |-> t])
         IN Result("Ok",
                [v EXCEPT !.supported_tokens[s].total_deposited = Add64(@, net_deposit_amount),
                          !.token_balances = token_balances,
                          !.total_value_locked = Add64(@, net_deposit_amount),
                          !.total_fees_collected = Add64(@, deposit_fee)])

(***************************************************************************)
(* process_deposit.  Any signer may deposit.  The token transfer of the    *)
(* net amount is a call to the token program, which may fail.              *)
(***************************************************************************)
Deposit(v, caller, mint, amount, transfer_ok, t, checks) ==
    IF v.paused THEN Result("UnauthorizedAccess", v)
    ELSE IF ~IsSupportedActive(v, mint) THEN Result("InvalidAccountData", v)
    ELSE LET deposit_fee == CalculateFee(amount, v.fee_config.deposit_fee_bps)
             net_deposit_amount == Sub64(amount, deposit_fee)
             s == MintIndex(v.supported_tokens, mint)
             b == MintIndex(v.token_balances, mint)
             overflow ==
                \/ AddOverflows(v.supported_tokens[s].total_deposited, net_deposit_amount)
                \/ (b # 0 /\ AddOverflows(v.token_balances[b].balance, net_deposit_amount))
                \/ AddOverflows(v.total_value_locked, net_deposit_amount)
                \/ AddOverflows(v.total_fees_collected, deposit_fee)
             token_balances ==
                IF b # 0
                THEN [v.token_balances EXCEPT
                        ![b].balance = Add64(@, net_deposit_amount),
                        ![b].last_updated = t]
                ELSE Append(v.token_balances,
                        [mint |-> mint, balance |-> net_deposit_amount, last_updated |-> t])
         IN IF SubOverflows(amount, deposit_fee) /\ checks THEN Result("Panic", v)
            ELSE IF ~transfer_ok THEN Result("ExternalError", v)
            ELSE IF overflow /\ checks THEN Result("Panic", v)
            ELSE Result("Ok",
                [v EXCEPT !.supported_tokens[s].total_deposited = Add64(@, net_deposit_amount),
                          !.token_balances = token_balances,
                          !.total_value_locked = Add64(@, net_deposit_amount),
                          !.total_fees_collected = Add64(@, deposit_fee)])

(***************************************************************************)
(* process_withdraw.  The only check on user_authority is that it signed.  *)
(***************************************************************************)
Withdraw(v, caller, mint, amount, transfer_ok, t, checks) ==
    IF v.paused THEN Result("UnauthorizedAccess", v)
    ELSE IF ~IsSupportedActive(v, mint) THEN Result("InvalidAccountData", v)
    ELSE IF BalanceOf(v, mint) < amount THEN Result("InvalidAmount", v)
    ELSE LET withdrawal_fee == CalculateFee(amount, v.fee_config.withdrawal_fee_bps)
             net_withdrawal_amount == Sub64(amount, withdrawal_fee)
             s == MintIndex(v.supported_tokens, mint)
             b == MintIndex(v.token_balances, mint)
             overflow ==
                \/ AddOverflows(v.supported_tokens[s].total_withdrawn, net_withdrawal_amount)
                \/ (b # 0 /\ SubOverflows(v.token_balances[b].balance, net_withdrawal_amount))
                \/ SubOverflows(v.total_value_locked, net_withdrawal_amount)
                \/ AddOverflows(v.total_fees_collected, withdrawal_fee)
             token_balances ==
                IF b # 0
                THEN [v.token_balances EXCEPT
                        ![b].balance = Sub64(@, net_withdrawal_amount),
                        ![b].last_updated = t]
                ELSE v.token_balances
         IN IF SubOverflows(amount, withdrawal_fee) /\ checks THEN Result("Panic", v)
            ELSE IF ~transfer_ok THEN Result("ExternalError", v)
            ELSE IF overflow /\ checks THEN Result("Panic", v)
            ELSE Result("Ok",
                [v EXCEPT !.supported_tokens[s].total_withdrawn = Add64(@, net_withdrawal_amount),
                          !.token_balances = token_balances,
                          !.total_value_locked = Sub64(@, net_withdrawal_amount),
                          !.total_fees_collected = Add64(@, withdrawal_fee)])

(***************************************************************************)
(* process_withdraw_sol and process_transfer move lamports out of the      *)
(* vault account.  Their result carries the lamports the vault account     *)
(* holds afterwards.  process_withdraw_sol reads no signer at all.         *)
(***************************************************************************)
SolResult(res, v, l) == [res |-> res, vault |-> v, lamports |-> l]

\* What the two handlers share from the balance check on.
MoveLamports(v, l, amount, transfer_ok, checks) ==
    IF l < amount THEN SolResult("InvalidAmount", v, l)
    ELSE LET withdrawal_fee == CalculateFee(amount, v.fee_config.withdrawal_fee_bps)
             net_withdrawal_amount == Sub64(amount, withdrawal_fee)
             overflow ==
                \/ SubOverflows(v.total_value_locked, net_withdrawal_amount)
                \/ AddOverflows(v.total_fees_collected, withdrawal_fee)
         IN IF SubOverflows(amount, withdrawal_fee) /\ checks THEN SolResult("Panic", v, l)
            ELSE IF ~transfer_ok \/ net_withdrawal_amount > l THEN SolResult("ExternalError", v, l)
            ELSE IF overflow /\ checks THEN SolResult("Panic", v, l)
            ELSE SolResult("Ok",
                [v EXCEPT !.total_value_locked = Sub64(@, net_withdrawal_amount),
                          !.total_fees_collected = Add64(@, withdrawal_fee)],
                l - net_withdrawal_amount)

WithdrawSOL(v, l, amount, transfer_ok, checks) ==
    IF v.paused THEN SolResult("UnauthorizedAccess", v, l)
    ELSE MoveLamports(v, l, amount, transfer_ok, checks)

Transfer(v, l, caller, amount, transfer_ok, checks) ==
    IF v.paused THEN SolResult("UnauthorizedAccess", v, l)
    ELSE IF v.authority # caller THEN SolResult("InsufficientAuthority", v, l)
    ELSE MoveLamports(v, l, amount, transfer_ok, checks)

(***************************************************************************)
(* processors/governance.rs                                                *)
(***************************************************************************)
\* governance_proposals.iter().position(|p| p.id == proposal_id): 1-based, 0 when absent
ProposalIndex(v, proposal_id) ==
    IF \E i \in DOMAIN v.governance_proposals : v.governance_proposals[i].id = proposal_id
    THEN CHOOSE i \in DOMAIN v.governance_proposals :
            /\ v.governance_proposals[i].id = proposal_id
            /\ \A j \in 1 .. (i - 1) : v.governance_proposals[j].id # proposal_id
    ELSE 0

GovernanceConfig(quorum_threshold, proposal_threshold, voting_period, timelock_delay, execution_threshold) ==
    [ some |-> TRUE,
      quorum_threshold |-> quorum_threshold,
      proposal_threshold |-> proposal_threshold,
      voting_period |-> voting_period,
      timelock_delay |-> timelock_delay,
      execution_threshold |-> execution_threshold ]

InitializeGovernance(v, caller, config) ==
    IF ~IsAuthorized(v, caller) THEN Result("InvalidAccountData", v)
    ELSE Result("Ok", [v EXCEPT !.governance_config = config])

UpdateGovernanceConfig(v, caller, config) ==
    IF ~IsAuthorized(v, caller) THEN Result("InvalidAccountData", v)
    ELSE IF ~v.governance_config.some THEN Result("InvalidAccountData", v)
    ELSE Result("Ok", [v EXCEPT !.governance_config = config])

CreateGovernanceProposal(v, caller, t) ==
    IF ~v.governance_config.some THEN Result("InvalidAccountData", v)
    ELSE IF v.legacy_total_deposited < v.governance_config.proposal_threshold
        THEN Result("InvalidAccountData", v)
    ELSE LET proposal == [ id |-> v.next_governance_proposal_id,
                           proposer |-> caller,
                           start_time |-> t,
                           end_time |-> t + v.governance_config.voting_period,
                           for_votes |-> 0,
                           against_votes |-> 0,
                           abstain_votes |-> 0,
                           executed |-> FALSE,
                           cancelled |-> FALSE,
                           eta |-> 0 ]
         IN Result("Ok",
                [v EXCEPT !.governance_proposals = Append(@, proposal),
                          !.next_governance_proposal_id = @ + 1])

\* CastVote with the search of vote_records for an earlier vote left out.
CastVoteAgain(v, caller, proposal_id, vote_type, t) ==
    LET i == ProposalIndex(v, proposal_id)
    IN  IF i = 0 THEN Result("InvalidAccountData", v)
        ELSE IF t < v.governance_proposals[i].start_time \/ t > v.governance_proposals[i].end_time
            THEN Result("InvalidAccountData", v)
        ELSE LET voting_power == VotingPower
                 vote_record == [ voter |-> caller,
                                  proposal_id |-> proposal_id,
                                  vote_type |-> vote_type,
                                  voting_power |-> voting_power,
                                  voted_at |-> t ]
                 tallied ==
                    IF vote_type = "For"
                    THEN [v EXCEPT !.governance_proposals[i].for_votes = @ + voting_power]
                    ELSE IF vote_type = "Against"
                    THEN [v EXCEPT !.governance_proposals[i].against_votes = @ + voting_power]
                    ELSE [v EXCEPT !.governance_proposals[i].abstain_votes = @ + voting_power]
             IN Result("Ok", [tallied EXCEPT !.vote_records = Append(@, vote_record)])

\* CastVote with the test of the voting window left out.
CastVoteAnyTime(v, caller, proposal_id, vote_type, t) ==
    LET i == ProposalIndex(v, proposal_id)
    IN  IF i = 0 THEN Result("InvalidAccountData", v)
        ELSE IF \E k \in DOMAIN v.vote_records :
                    v.vote_records[k].voter = caller /\ v.vote_records[k].proposal_id = proposal_id
            THEN Result("InvalidAccountData", v)
        ELSE LET voting_power == VotingPower
                 vote_record == [ voter |-> caller,
                                  proposal_id |-> proposal_id,
                                  vote_type |-> vote_type,
                                  voting_power |-> voting_power,
                                  voted_at |-> t ]
                 tallied ==
                    IF vote_type = "For"
                    THEN [v EXCEPT !.governance_proposals[i].for_votes = @ + voting_power]
                    ELSE IF vote_type = "Against"
                    THEN [v EXCEPT !.governance_proposals[i].against_votes = @ + voting_power]
                    ELSE [v EXCEPT !.governance_proposals[i].abstain_votes = @ + voting_power]
             IN Result("Ok", [tallied EXCEPT !.vote_records = Append(@, vote_record)])

\* CastVote counting an abstention as a vote against.
CastVoteAbstainAsAgainst(v, caller, proposal_id, vote_type, t) ==
    LET i == ProposalIndex(v, proposal_id)
    IN  IF i = 0 THEN Result("InvalidAccountData", v)
        ELSE IF t < v.governance_proposals[i].start_time \/ t > v.governance_proposals[i].end_time
            THEN Result("InvalidAccountData", v)
        ELSE IF \E k \in DOMAIN v.vote_records :
                    v.vote_records[k].voter = caller /\ v.vote_records[k].proposal_id = proposal_id
            THEN Result("InvalidAccountData", v)
        ELSE LET voting_power == VotingPower
                 vote_record == [ voter |-> caller,
                                  proposal_id |-> proposal_id,
                                  vote_type |-> vote_type,
                                  voting_power |-> voting_power,
                                  voted_at |-> t ]
                 tallied ==
                    IF vote_type = "For"
                    THEN [v EXCEPT !.governance_proposals[i].for_votes = @ + voting_power]
                    ELSE IF vote_type = "Against"
                    THEN [v EXCEPT !.governance_proposals[i].against_votes = @ + voting_power]
                    ELSE [v EXCEPT !.governance_proposals[i].against_votes = @ + voting_power]
             IN Result("Ok", [tallied EXCEPT !.vote_records = Append(@, vote_record)])

CastVote(v, caller, proposal_id, vote_type, t) ==
    LET i == ProposalIndex(v, proposal_id)
    IN  IF i = 0 THEN Result("InvalidAccountData", v)
        ELSE IF t < v.governance_proposals[i].start_time \/ t > v.governance_proposals[i].end_time
            THEN Result("InvalidAccountData", v)
        ELSE IF \E k \in DOMAIN v.vote_records :
                    v.vote_records[k].voter = caller /\ v.vote_records[k].proposal_id = proposal_id
            THEN Result("InvalidAccountData", v)
        ELSE LET voting_power == VotingPower
                 vote_record == [ voter |-> caller,
                                  proposal_id |-> proposal_id,
                                  vote_type |-> vote_type,
                                  voting_power |-> voting_power,
                                  voted_at |-> t ]
                 tallied ==
                    IF vote_type = "For"
                    THEN [v EXCEPT !.governance_proposals[i].for_votes = @ + voting_power]
                    ELSE IF vote_type = "Against"
                    THEN [v EXCEPT !.governance_proposals[i].against_votes = @ + voting_power]
                    ELSE [v EXCEPT !.governance_proposals[i].abstain_votes = @ + voting_power]
             IN Result("Ok", [tallied EXCEPT !.vote_records = Append(@, vote_record)])

\* QueueProposal with the quorum test left out.
QueueProposalNoQuorum(v, caller, proposal_id, t) ==
    IF ~v.governance_config.some THEN Result("InvalidAccountData", v)
    ELSE LET i == ProposalIndex(v, proposal_id)
         IN IF i = 0 THEN Result("InvalidAccountData", v)
            ELSE IF t <= v.governance_proposals[i].end_time THEN Result("InvalidAccountData", v)
            ELSE Result("Ok",
                    [v EXCEPT !.governance_proposals[i].eta =
                                    t + v.governance_config.timelock_delay])

QueueProposal(v, caller, proposal_id, t) ==
    IF ~v.governance_config.some THEN Result("InvalidAccountData", v)
    ELSE LET i == ProposalIndex(v, proposal_id)
         IN IF i = 0 THEN Result("InvalidAccountData", v)
            ELSE IF t <= v.governance_proposals[i].end_time THEN Result("InvalidAccountData", v)
            ELSE LET proposal == v.governance_proposals[i]
                     total_votes ==
                        proposal.for_votes + proposal.against_votes + proposal.abstain_votes
                     quorum_reached == total_votes >= v.governance_config.quorum_threshold
                 IN IF ~quorum_reached THEN Result("InvalidAccountData", v)
                    ELSE Result("Ok",
                        [v EXCEPT !.governance_proposals[i].eta =
                                        t + v.governance_config.timelock_delay])

ExecuteGovernanceProposal(v, caller, proposal_id, t) ==
    IF ~v.governance_config.some THEN Result("InvalidAccountData", v)
    ELSE LET i == ProposalIndex(v, proposal_id)
         IN IF i = 0 THEN Result("InvalidAccountData", v)
            ELSE IF t < v.governance_proposals[i].eta THEN Result("InvalidAccountData", v)
            ELSE LET proposal == v.governance_proposals[i]
                     total_votes == proposal.for_votes + proposal.against_votes
                     execution_threshold_reached ==
                        IF total_votes > 0
                        THEN (proposal.for_votes * 10000) \div total_votes
                                >= v.governance_config.execution_threshold
                        ELSE FALSE
                 IN IF ~execution_threshold_reached THEN Result("InvalidAccountData", v)
                    ELSE Result("Ok", [v EXCEPT !.governance_proposals[i].executed = TRUE])

CancelGovernanceProposal(v, caller, proposal_id) ==
    LET i == ProposalIndex(v, proposal_id)
    IN  IF i = 0 THEN Result("InvalidAccountData", v)
        ELSE IF v.governance_proposals[i].proposer # caller /\ v.emergency_admin # caller
            THEN Result("InvalidAccountData", v)
        ELSE Result("Ok", [v EXCEPT !.governance_proposals[i].cancelled = TRUE])

(***************************************************************************)
(* processors/basic.rs: the vault with legacy support.  process_initialize *)
(* records the mint in legacy_mint and makes the authority the emergency   *)
(* admin; process_deposit is the only writer that raises                   *)
(* legacy_total_deposited.                                                 *)
(***************************************************************************)
LegacyMint == "mintA"

InitLegacyVault ==
    [InitVault EXCEPT
        !.emergency_admin = Authority,
        !.supported_tokens = <<[mint |-> LegacyMint, balance |-> 0]>>,
        !.legacy_mint = [some |-> TRUE, mint |-> LegacyMint]]

LegacyDeposit(v, caller, amount, transfer_ok) ==
    IF ~IsAuthorized(v, caller) THEN Result("InvalidAccountData", v)
    ELSE IF v.paused THEN Result("InvalidAccountData", v)
    ELSE IF ~transfer_ok THEN Result("ExternalError", v)
    ELSE LET s == IF v.legacy_mint.some
                  THEN MintIndex(v.supported_tokens, v.legacy_mint.mint) ELSE 0
         IN IF v.legacy_mint.some /\ AddOverflows(v.legacy_total_deposited, amount)
                THEN Result("InvalidArgument", v)
            ELSE IF s # 0 /\ AddOverflows(v.supported_tokens[s].balance, amount)
                THEN Result("InvalidArgument", v)
            ELSE IF AddOverflows(v.total_value_locked, amount)
                THEN Result("InvalidArgument", v)
            ELSE Result("Ok",
                [v EXCEPT
                    !.legacy_total_deposited =
                        IF v.legacy_mint.some THEN @ + amount ELSE @,
                    !.supported_tokens =
                        IF s # 0 THEN [@ EXCEPT ![s].balance = @ + amount] ELSE @,
                    !.total_value_locked = @ + amount])

(***************************************************************************)
(* processors/timelock.rs                                                  *)
(***************************************************************************)

\* Vec::remove(index), index counted from 0
RemoveAt(s, index) ==
    [i \in 1 .. Len(s) - 1 |-> IF i <= index THEN s[i] ELSE s[i + 1]]

\* `x as i64` and `x as u64`: the same bits read with and without a sign
AsI64(x) == IF x >= U64 \div 2 THEN x - U64 ELSE x
AsU64(x) == x % U64

\* i64 `*`: aborts in a build with overflow checks, wraps in one without
MulOverflows(a, b) == a * b >= U64 \div 2 \/ a * b < -(U64 \div 2)
Mul64(a, b) == AsI64((a * b) % U64)

\* i64 `/` rounds toward zero
Div64(a, b) ==
    LET Abs(x) == IF x < 0 THEN -x ELSE x
        q == Abs(a) \div Abs(b)
    IN  IF (a < 0) = (b < 0) THEN q ELSE -q

\* process_create_time_lock pushing the lock before the authorization test
CreateTimeLockThenTest(v, caller, beneficiary, amount, duration, cliff_duration, is_linear, t) ==
    LET start_time == t
        end_time == start_time + duration
        cliff_time == IF cliff_duration.some THEN start_time + cliff_duration.d
                      ELSE end_time
        pushed == [v EXCEPT !.time_locks = Append(@,
                    [ beneficiary |-> beneficiary,
                      amount |-> amount,
                      start_time |-> start_time,
                      end_time |-> end_time,
                      cliff_time |-> cliff_time,
                      released_amount |-> 0,
                      is_linear |-> is_linear ])]
    IN  IF ~IsAuthorized(v, caller) \/ v.paused THEN Result("InvalidAccountData", pushed)
        ELSE Result("Ok", pushed)

CreateTimeLock(v, caller, beneficiary, amount, duration, cliff_duration, is_linear, t) ==
    IF ~IsAuthorized(v, caller) \/ v.paused THEN Result("InvalidAccountData", v)
    ELSE LET start_time == t
             end_time == start_time + duration
             cliff_time == IF cliff_duration.some THEN start_time + cliff_duration.d
                           ELSE end_time
         IN Result("Ok",
                [v EXCEPT !.time_locks = Append(@,
                    [ beneficiary |-> beneficiary,
                      amount |-> amount,
                      start_time |-> start_time,
                      end_time |-> end_time,
                      cliff_time |-> cliff_time,
                      released_amount |-> 0,
                      is_linear |-> is_linear ])])

\* The outcome of a claim: the result, the record written and the amount
\* the token program moved to the beneficiary.
ClaimResult(res, v, transfer) == [res |-> res, vault |-> v, transfer |-> transfer]

\* releasable_amount of process_claim_time_lock, for current_time >= cliff_time
Releasable(time_lock, current_time, checks) ==
    LET remainder == [ panic |-> SubOverflows(time_lock.amount, time_lock.released_amount) /\ checks,
                       amount |-> Sub64(time_lock.amount, time_lock.released_amount) ]
    IN  IF current_time >= time_lock.end_time THEN remainder
        ELSE IF time_lock.is_linear
        THEN LET total_duration == time_lock.end_time - time_lock.start_time
                 elapsed == current_time - time_lock.start_time
                 product == Mul64(AsI64(time_lock.amount), elapsed)
                 vested_amount == AsU64(Div64(product, total_duration))
             IN  IF total_duration = 0 THEN [panic |-> TRUE, amount |-> 0]
                 ELSE [ panic |-> \/ MulOverflows(AsI64(time_lock.amount), elapsed) /\ checks
                                  \/ SubOverflows(vested_amount, time_lock.released_amount) /\ checks,
                        amount |-> Sub64(vested_amount, time_lock.released_amount) ]
        ELSE remainder

\* process_claim_time_lock without the test of the beneficiary
ClaimByAnyone(v, caller, time_lock_index, t, transfer_ok, checks) ==
    IF time_lock_index >= Len(v.time_locks) THEN ClaimResult("InvalidAccountData", v, 0)
    ELSE LET i == time_lock_index + 1
             time_lock == v.time_locks[i]
         IN IF t < time_lock.cliff_time THEN ClaimResult("InvalidAccountData", v, 0)
            ELSE LET r == Releasable(time_lock, t, checks)
                     releasable_amount == r.amount
                     released_amount == Add64(time_lock.released_amount, releasable_amount)
                     claimed ==
                        [v EXCEPT
                            !.time_locks[i].released_amount = released_amount,
                            !.legacy_total_deposited = Sub64(@, releasable_amount),
                            !.total_value_locked = Sub64(@, releasable_amount)]
                 IN IF r.panic THEN ClaimResult("Panic", v, 0)
                    ELSE IF releasable_amount = 0 THEN ClaimResult("InvalidAccountData", v, 0)
                    ELSE IF v.legacy_total_deposited < releasable_amount
                        THEN ClaimResult("InsufficientFunds", v, 0)
                    ELSE IF ~transfer_ok THEN ClaimResult("ExternalError", v, 0)
                    ELSE IF checks /\
                            (\/ AddOverflows(time_lock.released_amount, releasable_amount)
                             \/ SubOverflows(v.total_value_locked, releasable_amount))
                        THEN ClaimResult("Panic", v, 0)
                    ELSE ClaimResult("Ok",
                            IF released_amount >= time_lock.amount
                            THEN [claimed EXCEPT !.time_locks = RemoveAt(@, time_lock_index)]
                            ELSE claimed,
                            releasable_amount)

ClaimTimeLock(v, caller, time_lock_index, t, transfer_ok, checks) ==
    IF time_lock_index >= Len(v.time_locks) THEN ClaimResult("InvalidAccountData", v, 0)
    ELSE LET i == time_lock_index + 1
             time_lock == v.time_locks[i]
         IN IF time_lock.beneficiary # caller THEN ClaimResult("InvalidAccountData", v, 0)
            ELSE IF t < time_lock.cliff_time THEN ClaimResult("InvalidAccountData", v, 0)
            ELSE LET r == Releasable(time_lock, t, checks)
                     releasable_amount == r.amount
                     released_amount == Add64(time_lock.released_amount, releasable_amount)
                     claimed ==
                        [v EXCEPT
                            !.time_locks[i].released_amount = released_amount,
                            !.legacy_total_deposited = Sub64(@, releasable_amount),
                            !.total_value_locked = Sub64(@, releasable_amount)]
                 IN IF r.panic THEN ClaimResult("Panic", v, 0)
                    ELSE IF releasable_amount = 0 THEN ClaimResult("InvalidAccountData", v, 0)
                    ELSE IF v.legacy_total_deposited < releasable_amount
                        THEN ClaimResult("InsufficientFunds", v, 0)
                    ELSE IF ~transfer_ok THEN ClaimResult("ExternalError", v, 0)
                    ELSE IF checks /\
                            (\/ AddOverflows(time_lock.released_amount, releasable_amount)
                             \/ SubOverflows(v.total_value_locked, releasable_amount))
                        THEN ClaimResult("Panic", v, 0)
                    ELSE ClaimResult("Ok",
                            IF released_amount >= time_lock.amount
                            THEN [claimed EXCEPT !.time_locks = RemoveAt(@, time_lock_index)]
                            ELSE claimed,
                            releasable_amount)

\* process_cancel_time_lock without the authorization test
CancelTimeLockUnguarded(v, caller, time_lock_index) ==
    IF time_lock_index >= Len(v.time_locks) THEN Result("InvalidAccountData", v)
    ELSE Result("Ok", [v EXCEPT !.time_locks = RemoveAt(@, time_lock_index)])

CancelTimeLock(v, caller, time_lock_index) ==
    IF ~IsAuthorized(v, caller) THEN Result("InvalidAccountData", v)
    ELSE IF time_lock_index >= Len(v.time_locks) THEN Result("InvalidAccountData", v)
    ELSE Result("Ok", [v EXCEPT !.time_locks = RemoveAt(@, time_lock_index)])

(***************************************************************************)
(* The requests.  `last` records the latest request and its result;        *)
(* ext_calls[id + 1] counts the external calls made for transaction id     *)
(* that returned Ok; queued holds the ids of the governance proposals for   *)
(* which a QueueProposal returned Ok; paid[i] is the total the token       *)
(* program has moved to the beneficiary of the stored lock time_locks[i].  *)
(***************************************************************************)
Request(op, caller, id, res) ==
    [op |-> op, caller |-> caller, id |-> id, res |-> res, reent |-> FALSE]

\* The state after process_initialize, for a build drawn from `builds`.
Genesis(builds) ==
    /\ vault = InitVault
    /\ now = 0
    /\ lamports = MaxLamports
    /\ overflow_checks \in builds
    /\ ext_calls = <<>>
    /\ queued = {}
    /\ paid = <<>>
    /\ last = Request("Initialize", Authority, 0, "Ok")

Init == Genesis(BOOLEAN)

\* The handlers of the multisig engine, the pause gate and the governance
\* engine never read overflow_checks: their specifications start from one
\* build, the other has the same behaviours.
InitOneBuild == Genesis({TRUE})

DoInitializeMultiSig(callers, owner_lists, thresholds) ==
    \E caller \in callers, owners \in owner_lists, threshold \in thresholds :
        LET r == InitializeMultiSig(vault, caller, owners, threshold)
        IN  /\ vault' = r.vault
            /\ last' = Request("InitializeMultiSig", caller, 0, r.res)
            /\ UNCHANGED <<now, lamports, overflow_checks, ext_calls, queued, paid>>

DoCreateMultiSigTransaction(callers) ==
    /\ Len(vault.multi_sig_transactions) < MaxTx
    /\ \E caller \in callers, target \in Targets, accounts_empty \in BOOLEAN :
        LET r == CreateMultiSigTransaction(vault, caller, target, accounts_empty)
        IN  /\ vault' = r.vault
            /\ ext_calls' = IF r.res = "Ok" THEN Append(ext_calls, 0) ELSE ext_calls
            /\ last' = Request("CreateMultiSigTransaction", caller,
                               Len(vault.multi_sig_transactions), r.res)
            /\ UNCHANGED <<now, lamports, overflow_checks, queued, paid>>

DoApproveMultiSigTransaction(callers) ==
    \E caller \in callers, transaction_id \in 0 .. MaxTx :
        LET r == ApproveMultiSigTransaction(vault, caller, transaction_id)
        IN  /\ vault' = r.vault
            /\ last' = Request("ApproveMultiSigTransaction", caller, transaction_id, r.res)
            /\ UNCHANGED <<now, lamports, overflow_checks, ext_calls, queued, paid>>

DoExecuteMultiSigTransaction(callers) ==
    \E caller \in callers, transaction_id \in 0 .. MaxTx,
       signer_ok \in BOOLEAN, ext_ok \in BOOLEAN :
        LET r == ExecuteMultiSigTransaction(vault, transaction_id, signer_ok, ext_ok, <<>>)
        IN  /\ vault' = r.vault
            /\ ext_calls' = [i \in DOMAIN ext_calls |->
                    ext_calls[i] + Cardinality({ j \in DOMAIN r.calls : r.calls[j] = i - 1 })]
            /\ last' = [Request("ExecuteMultiSigTransaction", caller, transaction_id, r.res)
                            EXCEPT !.reent = r.reent]
            /\ UNCHANGED <<now, lamports, overflow_checks, queued, paid>>

DoSetMultiSigOwners(callers, owner_lists) ==
    \E caller \in callers, owners \in owner_lists :
        LET r == SetMultiSigOwners(vault, caller, owners)
        IN  /\ vault' = r.vault
            /\ last' = Request("SetMultiSigOwners", caller, 0, r.res)
            /\ UNCHANGED <<now, lamports, overflow_checks, ext_calls, queued, paid>>

DoChangeMultiSigThreshold(callers) ==
    \E caller \in callers, threshold \in Thresholds :
        LET r == ChangeMultiSigThreshold(vault, caller, threshold)
        IN  /\ vault' = r.vault
            /\ last' = Request("ChangeMultiSigThreshold", caller, 0, r.res)
            /\ UNCHANGED <<now, lamports, overflow_checks, ext_calls, queued, paid>>

DoPauseVault(callers) ==
    \E caller \in callers :
        LET r == PauseVault(vault, caller)
        IN  /\ vault' = r.vault
            /\ last' = Request("PauseVault", caller, 0, r.res)
            /\ UNCHANGED <<now, lamports, overflow_checks, ext_calls, queued, paid>>

DoUnpauseVault(callers) ==
    \E caller \in callers :
        LET r == UnpauseVault(vault, caller)
        IN  /\ vault' = r.vault
            /\ last' = Request("UnpauseVault", caller, 0, r.res)
            /\ UNCHANGED <<now, lamports, overflow_checks, ext_calls, queued, paid>>

\* A request about a principal (a new authority, a new emergency admin).
RequestAbout(op, caller, principal, res) ==
    [op |-> op, caller |-> caller, id |-> 0, res |-> res, reent |-> FALSE,
     principal |-> principal]

DoTransferAuthority(callers, principals) ==
    \E caller \in callers, new_authority \in principals :
        LET r == TransferAuthority(vault, caller, new_authority)
        IN  /\ vault' = r.vault
            /\ last' = RequestAbout("TransferAuthority", caller, new_authority, r.res)
            /\ UNCHANGED <<now, lamports, overflow_checks, ext_calls, queued, paid>>

DoUpdateEmergencyAdmin(callers, principals) ==
    \E caller \in callers, new_admin \in principals :
        LET r == UpdateEmergencyAdmin(vault, caller, new_admin)
        IN  /\ vault' = r.vault
            /\ last' = RequestAbout("UpdateEmergencyAdmin", caller, new_admin, r.res)
            /\ UNCHANGED <<now, lamports, overflow_checks, ext_calls, queued, paid>>

\* The same four requests as the entrypoint of processor.rs serves them.
DoProcessPauseVault(callers) ==
    \E caller \in callers :
        LET r == ProcessPauseVault(vault, caller)
        IN  /\ vault' = r.vault
            /\ last' = Request("PauseVault", caller, 0, r.res)
            /\ UNCHANGED <<now, lamports, overflow_checks, ext_calls, queued, paid>>

DoProcessUnpauseVault(callers) ==
    \E caller \in callers :
        LET r == ProcessUnpauseVault(vault, caller)
        IN  /\ vault' = r.vault
            /\ last' = Request("UnpauseVault", caller, 0, r.res)
            /\ UNCHANGED <<now, lamports, overflow_checks, ext_calls, queued, paid>>

DoProcessTransferAuthority(callers, principals) ==
    \E caller \in callers, new_authority \in principals :
        LET r == ProcessTransferAuthority(vault, caller, new_authority)
        IN  /\ vault' = r.vault
            /\ last' = RequestAbout("TransferAuthority", caller, new_authority, r.res)
            /\ UNCHANGED <<now, lamports, overflow_checks, ext_calls, queued, paid>>

DoProcessUpdateEmergencyAdmin(callers, principals) ==
    \E caller \in callers, new_admin \in principals :
        LET r == ProcessUpdateEmergencyAdmin(vault, caller, new_admin)
        IN  /\ vault' = r.vault
            /\ last' = RequestAbout("UpdateEmergencyAdmin", caller, new_admin, r.res)
            /\ UNCHANGED <<now, lamports, overflow_checks, ext_calls, queued, paid>>

\* The clock of the host; it never runs backwards.
Tick ==
    /\ now < MaxTime
    /\ now' = now + 1
    /\ last' = Request("Tick", "clock", 0, "Ok")
    /\ UNCHANGED <<vault, lamports, overflow_checks, ext_calls, queued, paid>>

\* The state after processors/basic.rs process_initialize.
GenesisLegacy(builds) ==
    /\ vault = InitLegacyVault
    /\ now = 0
    /\ lamports = MaxLamports
    /\ overflow_checks \in builds
    /\ ext_calls = <<>>
    /\ queued = {}
    /\ paid = <<>>
    /\ last = Request("Initialize", Authority, 0, "Ok")

DoLegacyDeposit(callers, amounts, volume) ==
    \E caller \in callers, amount \in amounts, transfer_ok \in BOOLEAN :
        /\ vault.legacy_total_deposited + amount <= volume
        /\ LET r == LegacyDeposit(vault, caller, amount, transfer_ok)
           IN  /\ vault' = r.vault
               /\ last' = Request("Deposit", caller, 0, r.res)
               /\ UNCHANGED <<now, lamports, overflow_checks, ext_calls, queued, paid>>

DoCreateTimeLock(callers, amounts, locks) ==
    /\ Len(vault.time_locks) < locks
    /\ \E caller \in callers, beneficiary \in Beneficiaries, amount \in amounts,
          duration \in Durations, cliff_duration \in CliffDurations, is_linear \in BOOLEAN :
        LET r == CreateTimeLock(vault, caller, beneficiary, amount, duration,
                                cliff_duration, is_linear, now)
        IN  /\ vault' = r.vault
            /\ paid' = IF r.res = "Ok" THEN Append(paid, 0) ELSE paid
            /\ last' = Request("CreateTimeLock", caller, Len(vault.time_locks), r.res)
            /\ UNCHANGED <<now, lamports, overflow_checks, ext_calls, queued>>

DoClaimTimeLock(callers) ==
    \E caller \in callers, time_lock_index \in 0 .. MaxLocks, transfer_ok \in BOOLEAN :
        LET r == ClaimTimeLock(vault, caller, time_lock_index, now, transfer_ok, overflow_checks)
        IN  /\ vault' = r.vault
            /\ paid' = IF r.res # "Ok" THEN paid
                       ELSE IF Len(r.vault.time_locks) < Len(vault.time_locks)
                       THEN RemoveAt(paid, time_lock_index)
                       ELSE [paid EXCEPT ![time_lock_index + 1] = @ + r.transfer]
            /\ last' = Request("ClaimTimeLock", caller, time_lock_index, r.res)
            /\ UNCHANGED <<now, lamports, overflow_checks, ext_calls, queued>>

DoCancelTimeLock(callers) ==
    \E caller \in callers, time_lock_index \in 0 .. MaxLocks :
        LET r == CancelTimeLock(vault, caller, time_lock_index)
        IN  /\ vault' = r.vault
            /\ paid' = IF r.res = "Ok" THEN RemoveAt(paid, time_lock_index) ELSE paid
            /\ last' = Request("CancelTimeLock", caller, time_lock_index, r.res)
            /\ UNCHANGED <<now, lamports, overflow_checks, ext_calls, queued>>

\* The gross volume the ledger has taken in so far.
Volume(v) ==
    LET RECURSIVE Sum(_)
        Sum(i) == IF i = 0 THEN 0 ELSE v.supported_tokens[i].total_deposited + Sum(i - 1)
    IN  Sum(Len(v.supported_tokens)) + v.total_fees_collected

DoAddSupportedToken(callers, mints) ==
    \E caller \in callers, mint \in mints, create_ok \in BOOLEAN :
        LET r == AddSupportedToken(vault, caller, mint, create_ok)
        IN  /\ vault' = r.vault
            /\ last' = Request("AddSupportedToken", caller, 0, r.res)
            /\ UNCHANGED <<now, lamports, overflow_checks, ext_calls, queued, paid>>

DoUpdateFeeConfig(callers, schedules) ==
    \E caller \in callers, fees \in schedules :
        LET r == UpdateFeeConfig(vault, caller, fees[1], fees[2])
        IN  /\ vault' = r.vault
            /\ last' = Request("UpdateFeeConfig", caller, 0, r.res)
            /\ UNCHANGED <<now, lamports, overflow_checks, ext_calls, queued, paid>>

\* calculate_fee applied to an amount under the deposit fee of the record
DoCalculateFee(amounts) ==
    \E amount \in amounts :
        /\ last' = Request("calculate_fee", Authority, amount,
                           CalculateFee(amount, vault.fee_config.deposit_fee_bps))
        /\ UNCHANGED <<vault, now, lamports, overflow_checks, ext_calls, queued, paid>>

DoDeposit(callers, amounts, volume) ==
    \E caller \in callers, mint \in Mints, amount \in amounts, transfer_ok \in BOOLEAN :
        /\ Volume(vault) + amount <= volume
        /\ LET r == Deposit(vault, caller, mint, amount, transfer_ok, now, overflow_checks)
           IN  /\ vault' = r.vault
               /\ last' = Request("Deposit", caller, 0, r.res)
               /\ UNCHANGED <<now, lamports, overflow_checks, ext_calls, queued, paid>>

DoWithdraw(callers, amounts, volume) ==
    \E caller \in callers, mint \in Mints, amount \in amounts, transfer_ok \in BOOLEAN :
        /\ vault.total_fees_collected + amount <= volume
        /\ LET r == Withdraw(vault, caller, mint, amount, transfer_ok, now, overflow_checks)
           IN  /\ vault' = r.vault
               /\ last' = Request("Withdraw", caller, 0, r.res)
               /\ UNCHANGED <<now, lamports, overflow_checks, ext_calls, queued, paid>>

DoWithdrawSOL(callers) ==
    \E caller \in callers, amount \in Amounts, transfer_ok \in BOOLEAN :
        /\ vault.total_fees_collected + amount <= MaxVolume
        /\ LET r == WithdrawSOL(vault, lamports, amount, transfer_ok, overflow_checks)
           IN  /\ vault' = r.vault
               /\ lamports' = r.lamports
               /\ last' = Request("WithdrawSOL", caller, 0, r.res)
               /\ UNCHANGED <<now, overflow_checks, ext_calls, queued, paid>>

DoTransfer(callers) ==
    \E caller \in callers, amount \in Amounts, transfer_ok \in BOOLEAN :
        /\ vault.total_fees_collected + amount <= MaxVolume
        /\ LET r == Transfer(vault, lamports, caller, amount, transfer_ok, overflow_checks)
           IN  /\ vault' = r.vault
               /\ lamports' = r.lamports
               /\ last' = Request("Transfer", caller, 0, r.res)
               /\ UNCHANGED <<now, overflow_checks, ext_calls, queued, paid>>

GovernanceConfigs ==
    { GovernanceConfig(q, p, vp, d, e) :
        q \in QuorumThresholds, p \in ProposalThresholds, vp \in VotingPeriods,
        d \in TimelockDelays, e \in ExecutionThresholds }

DoInitializeGovernance(callers, configs) ==
    \E caller \in callers, config \in configs :
        LET r == InitializeGovernance(vault, caller, config)
        IN  /\ vault' = r.vault
            /\ last' = Request("InitializeGovernance", caller, 0, r.res)
            /\ UNCHANGED <<now, lamports, overflow_checks, ext_calls, queued, paid>>

DoUpdateGovernanceConfig(callers) ==
    \E caller \in callers, config \in GovernanceConfigs :
        LET r == UpdateGovernanceConfig(vault, caller, config)
        IN  /\ vault' = r.vault
            /\ last' = Request("UpdateGovernanceConfig", caller, 0, r.res)
            /\ UNCHANGED <<now, lamports, overflow_checks, ext_calls, queued, paid>>

DoCreateGovernanceProposal(callers) ==
    /\ Len(vault.governance_proposals) < MaxProposals
    /\ \E caller \in callers :
        LET r == CreateGovernanceProposal(vault, caller, now)
        IN  /\ vault' = r.vault
            /\ last' = Request("CreateGovernanceProposal", caller,
                               vault.next_governance_proposal_id, r.res)
            /\ UNCHANGED <<now, lamports, overflow_checks, ext_calls, queued, paid>>

DoCastVote(callers, vote_types) ==
    \E caller \in callers, proposal_id \in 0 .. MaxProposals, vote_type \in vote_types :
        LET r == CastVote(vault, caller, proposal_id, vote_type, now)
        IN  /\ vault' = r.vault
            /\ last' = Request("CastVote", caller, proposal_id, r.res)
            /\ UNCHANGED <<now, lamports, overflow_checks, ext_calls, queued, paid>>

DoQueueProposal(callers) ==
    \E caller \in callers, proposal_id \in 0 .. MaxProposals :
        LET r == QueueProposal(vault, caller, proposal_id, now)
        IN  /\ vault' = r.vault
            /\ queued' = IF r.res = "Ok" THEN queued \cup {proposal_id} ELSE queued
            /\ last' = Request("QueueProposal", caller, proposal_id, r.res)
            /\ UNCHANGED <<now, lamports, overflow_checks, ext_calls, paid>>

DoExecuteGovernanceProposal(callers) ==
    \E caller \in callers, proposal_id \in 0 .. MaxProposals :
        LET r == ExecuteGovernanceProposal(vault, caller, proposal_id, now)
        IN  /\ vault' = r.vault
            /\ last' = Request("ExecuteGovernanceProposal", caller, proposal_id, r.res)
            /\ UNCHANGED <<now, lamports, overflow_checks, ext_calls, queued, paid>>

DoCancelGovernanceProposal(callers) ==
    \E caller \in callers, proposal_id \in 0 .. MaxProposals :
        LET r == CancelGovernanceProposal(vault, caller, proposal_id)
        IN  /\ vault' = r.vault
            /\ last' = Request("CancelGovernanceProposal", caller, proposal_id, r.res)
            /\ UNCHANGED <<now, lamports, overflow_checks, ext_calls, queued, paid>>

(***************************************************************************)
(* The multisig engine: owner set, threshold, transactions.                *)
(***************************************************************************)
NextMultiSig ==
    \/ DoInitializeMultiSig(Reconfigurers, OwnerLists, Thresholds)
    \/ DoCreateMultiSigTransaction(Proposers)
    \/ DoApproveMultiSigTransaction(Proposers)
    \/ DoExecuteMultiSigTransaction(Executors)
    \/ DoSetMultiSigOwners(Reconfigurers, OwnerLists)
    \/ DoChangeMultiSigThreshold(Reconfigurers)

SpecMultiSig == InitOneBuild /\ [][NextMultiSig]_vars

(***************************************************************************)
(* The multisig engine under a change of the order of the owners.          *)
(***************************************************************************)
NextOwnerChange ==
    \/ DoInitializeMultiSig({Authority}, {<<"o1", "o2">>}, {2})
    \/ DoCreateMultiSigTransaction(Proposers)
    \/ DoApproveMultiSigTransaction(Proposers)
    \/ DoExecuteMultiSigTransaction(Executors)
    \/ DoSetMultiSigOwners({Authority}, {<<"o2", "o1">>, <<"o1">>})
    \/ DoChangeMultiSigThreshold({Authority})

SpecOwnerChange == InitOneBuild /\ [][NextOwnerChange]_vars

(***************************************************************************)
(* The multisig engine behind the pause gate.                              *)
(***************************************************************************)
NextPause ==
    \/ NextMultiSig
    \/ DoPauseVault(PauseCallers)
    \/ DoUnpauseVault(PauseCallers)

SpecPause == InitOneBuild /\ [][NextPause]_vars

(***************************************************************************)
(* Pause and hand-over as the handlers of processors/emergency.rs and      *)
(* processors/admin.rs serve them.                                         *)
(***************************************************************************)
NextAdmin ==
    \/ Tick
    \/ DoPauseVault(Principals)
    \/ DoUnpauseVault(Principals)
    \/ DoTransferAuthority(Principals, Principals)
    \/ DoUpdateEmergencyAdmin(Principals, Principals)

SpecAdmin == InitOneBuild /\ [][NextAdmin]_vars

(***************************************************************************)
(* The same requests as the deployed entrypoint serves them: process_      *)
(* instruction of processor.rs calls the bodies of processor.rs.           *)
(***************************************************************************)
NextEntrypoint ==
    \/ Tick
    \/ DoProcessPauseVault(Principals)
    \/ DoProcessUnpauseVault(Principals)
    \/ DoProcessTransferAuthority(Principals, Principals)
    \/ DoProcessUpdateEmergencyAdmin(Principals, Principals)

SpecEntrypoint == InitOneBuild /\ [][NextEntrypoint]_vars

(***************************************************************************)
(* The ledger: assets, fees, deposits and withdrawals, the pause gate, and *)
(* the multisig configuration the authorization of a caller depends on.    *)
(***************************************************************************)
NextLedger ==
    \/ DoAddSupportedToken(LedgerCallers, {"mintA"})
    \/ DoUpdateFeeConfig({Authority}, FeeSchedules)
    \/ DoDeposit(Depositors, Amounts, MaxVolume)
    \/ DoWithdraw(LedgerCallers, Amounts, MaxVolume)
    \/ DoWithdrawSOL(Depositors)
    \/ DoTransfer(LedgerCallers)
    \/ DoPauseVault(PauseCallers)
    \/ DoUnpauseVault({Admin})
    \/ DoInitializeMultiSig({Authority}, {<<"o1">>}, {1})

SpecLedger == Init /\ [][NextLedger]_vars

(***************************************************************************)
(* The token ledger over a turnover of more than 2^64 units: deposits and  *)
(* withdrawals of a quarter and of half of the u64 range, no fees.         *)
(***************************************************************************)
NextTurnover ==
    \/ DoAddSupportedToken({Authority}, {"mintA"})
    \/ DoDeposit(Depositors, {U64 \div 4, U64 \div 2}, 2 * U64)
    \/ DoWithdraw(Depositors, {U64 \div 4, U64 \div 2}, 2 * U64)

SpecTurnover == Init /\ [][NextTurnover]_vars

(***************************************************************************)
(* The token ledger under a fee of one half on deposits and withdrawals,   *)
(* over a turnover whose fees add up to more than 2^64 units.              *)
(***************************************************************************)
NextFeeTurnover ==
    \/ DoAddSupportedToken({Authority}, {"mintA"})
    \/ DoUpdateFeeConfig({Authority}, {<<5000, 5000>>})
    \/ DoDeposit(Depositors, {U64 \div 4, U64 \div 2}, 2 * U64)
    \/ DoWithdraw(Depositors, {U64 \div 4, U64 \div 2}, 2 * U64)

SpecFeeTurnover == Init /\ [][NextFeeTurnover]_vars

(***************************************************************************)
(* calculate_fee over the u64 range and the fee rates of [0, 10000].       *)
(***************************************************************************)
NextFee ==
    \/ DoUpdateFeeConfig({Authority}, { <<bps, bps>> : bps \in FeeRates })
    \/ DoCalculateFee(0 .. U64 - 1)

SpecFee == InitOneBuild /\ [][NextFee]_vars

(***************************************************************************)
(* The governance engine under the clock.                                  *)
(***************************************************************************)
NextGovernance ==
    \/ Tick
    \/ DoInitializeGovernance(GovCallers, GovernanceConfigs)
    \/ DoUpdateGovernanceConfig({Authority})
    \/ DoCreateGovernanceProposal(GovCallers)
    \/ DoCastVote(GovCallers, VoteTypes)
    \/ DoQueueProposal({Authority})
    \/ DoExecuteGovernanceProposal({Authority})
    \/ DoCancelGovernanceProposal(CancelCallers)

SpecGovernance == InitOneBuild /\ [][NextGovernance]_vars

(***************************************************************************)
(* Voting inside the voting window: the handlers that write vote_records   *)
(* and the tallies, the configuration and the creation of proposals.       *)
(***************************************************************************)
NextVoting ==
    \/ DoInitializeGovernance({Authority}, GovernanceConfigs)
    \/ DoCreateGovernanceProposal({"o1"})
    \/ DoCastVote(GovCallers, VoteTypes)

SpecVoting == InitOneBuild /\ [][NextVoting]_vars

(***************************************************************************)
(* Voting under the clock: proposals are created and voted on before,      *)
(* inside and after their voting window.                                   *)
(***************************************************************************)
NextVotingWindow ==
    \/ Tick
    \/ DoInitializeGovernance({Authority}, GovernanceConfigs)
    \/ DoCreateGovernanceProposal({"o1"})
    \/ DoCastVote({"o1"}, VoteTypes)

SpecVotingWindow == InitOneBuild /\ [][NextVotingWindow]_vars

(***************************************************************************)
(* Queueing under the clock: one voter and quorums of one and of two votes, *)
(* so that a proposal is queued with no vote, below and at the quorum.     *)
(***************************************************************************)
NextQueue ==
    \/ Tick
    \/ DoInitializeGovernance({Authority}, GovernanceConfigs)
    \/ DoCreateGovernanceProposal({"o1"})
    \/ DoCastVote({"o1"}, VoteTypes)
    \/ DoQueueProposal({Authority})

SpecQueue == InitOneBuild /\ [][NextQueue]_vars

(***************************************************************************)
(* Execution under the clock: two voters and execution thresholds of 0 and *)
(* of 6000 basis points.                                                   *)
(***************************************************************************)
ExecutionConfigs ==
    { GovernanceConfig(100, 0, 1, 1, e) : e \in {0, 6000} }

NextExecute ==
    \/ Tick
    \/ DoInitializeGovernance({Authority}, ExecutionConfigs)
    \/ DoCreateGovernanceProposal({"o1"})
    \/ DoCastVote(GovCallers, VoteTypes)
    \/ DoExecuteGovernanceProposal({Authority})

SpecExecute == InitOneBuild /\ [][NextExecute]_vars

(***************************************************************************)
(* Proposals of a vault with legacy support, whose deposits raise          *)
(* legacy_total_deposited, under proposal thresholds of 0 and of 2.        *)
(* VotingWeight is the balance of the voter_token_account a principal      *)
(* passes with its request; the program never reads that account.          *)
(***************************************************************************)
VotingWeight(principal) == IF principal = Authority THEN 2 ELSE 0

ProposalConfigs ==
    { GovernanceConfig(100, p, 1, 1, 6000) : p \in {0, 2} }

NextProposals ==
    \/ Tick
    \/ DoLegacyDeposit({Authority}, {2}, MaxVolume)
    \/ DoInitializeGovernance({Authority}, ProposalConfigs)
    \/ DoCreateGovernanceProposal(GovCallers)

SpecProposals == GenesisLegacy({TRUE}) /\ [][NextProposals]_vars

(***************************************************************************)
(* The time locks of a vault with legacy support.                          *)
(***************************************************************************)
NextTimeLock ==
    \/ Tick
    \/ DoLegacyDeposit({Authority}, {2}, MaxVolume)
    \/ DoCreateTimeLock(LockCallers, LockAmounts, MaxLocks)
    \/ DoClaimTimeLock(ClaimCallers)
    \/ DoCancelTimeLock(LockCallers)

SpecTimeLock == GenesisLegacy(BOOLEAN) /\ [][NextTimeLock]_vars

\* The same requests with amounts of the upper half of the u64 range.
NextVesting ==
    \/ Tick
    \/ DoLegacyDeposit({Authority}, {U64 - 2}, U64 - 1)
    \/ DoCreateTimeLock({Authority}, {2, U64 - 4}, MaxLocks)
    \/ DoClaimTimeLock(Beneficiaries)
    \/ DoCancelTimeLock({Authority})

SpecVesting == GenesisLegacy(BOOLEAN) /\ [][NextVesting]_vars

(***************************************************************************)
(* Time locks of one beneficiary stored side by side, and its claims.      *)
(***************************************************************************)
NextLockPair ==
    \/ Tick
    \/ DoLegacyDeposit({Authority}, {2}, 2 * MaxVolume)
    \/ DoCreateTimeLock({Authority}, LockAmounts, MaxLocks + 1)
    \/ DoClaimTimeLock(Beneficiaries)

SpecLockPair == GenesisLegacy(BOOLEAN) /\ [][NextLockPair]_vars

(***************************************************************************)
(* Time locks side by side under cancellation, with and without a multisig *)
(* configuration.                                                          *)
(***************************************************************************)
NextCancel ==
    \/ Tick
    \/ DoInitializeMultiSig({Authority}, {<<"o2">>}, {1})
    \/ DoLegacyDeposit({Authority}, {2}, MaxVolume)
    \/ DoCreateTimeLock(LockCallers, LockAmounts, MaxLocks + 1)
    \/ DoCancelTimeLock(LockCallers)

SpecCancel == GenesisLegacy({TRUE}) /\ [][NextCancel]_vars

(***************************************************************************)
(* Requests of the token ledger and of the time locks on one vault.        *)
(***************************************************************************)
NextRequests ==
    \/ Tick
    \/ DoAddSupportedToken({Authority}, {"mintA"})
    \/ DoDeposit(Depositors, Amounts, MaxVolume)
    \/ DoCreateTimeLock(LockCallers, LockAmounts, MaxLocks)
    \/ DoClaimTimeLock(Beneficiaries)

SpecRequests == Init /\ [][NextRequests]_vars

(***************************************************************************)
(* Claims about the multisig engine.                                       *)
(***************************************************************************)
Stored(v, id) == id < Len(v.multi_sig_transactions)
Tx(v, id) == v.multi_sig_transactions[id + 1]
Approvals(v, id) == CountSigners(Tx(v, id).signers)
Pending(v, id) == v.multi_sig.some /\ Stored(v, id) /\ ~Tx(v, id).did_execute

\* C1: an ExecuteMultiSigTransaction succeeds only if the transaction is stored
\* and its set approval bits number at least the threshold of that moment, and
\* did_execute is then true; on a pending transaction with fewer approvals it
\* fails with NotEnoughSigners and did_execute stays false; on a pending
\* transaction with the threshold reached, the derived signer passed and the
\* external call succeeding, it succeeds and sets did_execute.  No step turns
\* did_execute of any transaction to true with fewer approvals than the threshold.
C1_ExecuteNeedsThreshold ==
    [][ /\ \A i \in 0 .. (Len(vault.multi_sig_transactions) - 1) :
              (~Tx(vault, i).did_execute /\ Tx(vault', i).did_execute)
                  => Approvals(vault, i) >= vault.multi_sig.threshold
        /\ last'.op = "ExecuteMultiSigTransaction" =>
              LET id == last'.id
              IN  /\ last'.res = "Ok" =>
                        /\ Pending(vault, id)
                        /\ Approvals(vault, id) >= vault.multi_sig.threshold
                        /\ Tx(vault', id).did_execute
                  /\ (Pending(vault, id) /\ Approvals(vault, id) < vault.multi_sig.threshold) =>
                        /\ last'.res = "NotEnoughSigners"
                        /\ ~Tx(vault', id).did_execute
        /\ \A id \in 0 .. (Len(vault.multi_sig_transactions) - 1) :
              ( /\ Pending(vault, id)
                /\ Approvals(vault, id) >= vault.multi_sig.threshold
                /\ Tx(vault, id).target = External ) =>
                  LET r == ExecuteMultiSigTransaction(vault, id, TRUE, TRUE, <<>>)
                  IN  r.res = "Ok" /\ Tx(r.vault, id).did_execute
      ]_vars

\* C1 witness: a transaction that needed two approvals and had them was executed.
C1_Witness ==
    /\ last.op = "ExecuteMultiSigTransaction"
    /\ last.res = "Ok"
    /\ vault.multi_sig.threshold = 2
    /\ Approvals(vault, last.id) = 2
    /\ Tx(vault, last.id).did_execute

\* C2: did_execute, once true, is true in every later state, and an
\* ApproveMultiSigTransaction or ExecuteMultiSigTransaction (by a signing caller)
\* on an executed transaction fails with TransactionAlreadyExecuted and leaves
\* the vault record as it was.
C2_ExecutedIsTerminal ==
    [][ /\ \A i \in 0 .. (Len(vault.multi_sig_transactions) - 1) :
              Tx(vault, i).did_execute => (Stored(vault', i) /\ Tx(vault', i).did_execute)
        /\ ( /\ last'.op \in {"ApproveMultiSigTransaction", "ExecuteMultiSigTransaction"}
             /\ Stored(vault, last'.id)
             /\ Tx(vault, last'.id).did_execute ) =>
                  (last'.res = "TransactionAlreadyExecuted" /\ vault' = vault)
      ]_vars

\* C2 witness: an approve arrived for a transaction that had been executed.
C2_Witness ==
    /\ last.op = "ApproveMultiSigTransaction"
    /\ last.res = "TransactionAlreadyExecuted"
    /\ Tx(vault, last.id).did_execute

\* C3: for every transaction id the external call returns Ok at most once over
\* any sequence of requests, also when the stored instruction re-enters
\* ExecuteMultiSigTransaction for an id whose external call is in progress.
C3_AtMostOnce == \A i \in DOMAIN ext_calls : ext_calls[i] <= 1

\* C3 witness: an execute of an id re-entered while that id's external call was
\* in progress and before did_execute was written, and passed the handler's checks.
C3_Witness ==
    /\ last.op = "ExecuteMultiSigTransaction"
    /\ last.reent
    /\ last.res = "CallDepth"
    /\ Pending(vault, last.id)
    /\ Approvals(vault, last.id) >= vault.multi_sig.threshold

\* C4: when the external call of ExecuteMultiSigTransaction fails the request
\* fails and the vault record is what it was; did_execute of a transaction is
\* written only in a step in which its external call returned Ok.
C4_FailedCallWritesNothing ==
    [][ /\ (last'.op = "ExecuteMultiSigTransaction" /\ last'.res # "Ok") =>
              (vault' = vault /\ ext_calls' = ext_calls)
        /\ \A i \in 0 .. (Len(vault.multi_sig_transactions) - 1) :
              (~Tx(vault, i).did_execute /\ Tx(vault', i).did_execute)
                  => ext_calls'[i + 1] = ext_calls[i + 1] + 1
      ]_vars

\* C4 witness: the external call of an execute that passed every check failed.
C4_Witness ==
    /\ last.op = "ExecuteMultiSigTransaction"
    /\ last.res = "ExternalError"
    /\ Pending(vault, last.id)
    /\ Approvals(vault, last.id) >= vault.multi_sig.threshold

\* C5 (as claimed): SetMultiSigOwners and ChangeMultiSigThreshold succeed only
\* when the caller is a current owner of the multisig.
C5_OnlyOwnersReconfigure ==
    [][ ( /\ last'.op \in {"SetMultiSigOwners", "ChangeMultiSigThreshold"}
          /\ last'.res = "Ok" ) =>
              (vault.multi_sig.some /\ Contains(vault.multi_sig.owners, last'.caller))
      ]_vars

\* C7 (as claimed): whenever a multisig is configured 1 <= threshold <= len(owners),
\* and a threshold of 0 or above len(owners) is refused with InvalidThreshold.
C7_ThresholdInRange ==
    /\ vault.multi_sig.some =>
          (1 <= vault.multi_sig.threshold
              /\ vault.multi_sig.threshold <= Len(vault.multi_sig.owners))
    /\ vault.multi_sig.some =>
          \A c \in MsCallers, t \in Thresholds :
              (t = 0 \/ t > Len(vault.multi_sig.owners)) =>
                  ChangeMultiSigThreshold(vault, c, t) = Result("InvalidThreshold", vault)

(***************************************************************************)
(* Claims about the ledger and the pause gate.                             *)
(***************************************************************************)
ValueMoving == {"Withdraw", "WithdrawSOL", "Transfer"}

\* C6 (as claimed): Withdraw, WithdrawSOL and Transfer succeed only for a caller
\* that passes the authorization guard (vault.authority without a multisig, an
\* owner with one); for any other caller they fail and leave the record and
\* the lamports as they were.
C6_OnlyAuthorizedMoveValue ==
    [][ (last'.op \in ValueMoving /\ ~IsAuthorized(vault, last'.caller)) =>
            (last'.res # "Ok" /\ vault' = vault /\ lamports' = lamports)
      ]_vars

\* C8: while paused is true a Deposit, Withdraw, WithdrawSOL or Transfer is
\* rejected (UnauthorizedAccess) and the record (balances, per-asset totals,
\* total_value_locked, total_fees_collected) and the lamports stay as they were.
C8_PausedLedgerFrozen ==
    [][ (vault.paused /\ last'.op \in (ValueMoving \cup {"Deposit"})) =>
            (last'.res = "UnauthorizedAccess" /\ vault' = vault /\ lamports' = lamports)
      ]_vars

\* C8 witness: a Withdraw of an amount the vault holds was refused while paused.
C8_Witness ==
    /\ vault.paused
    /\ last.op = "Withdraw"
    /\ last.res = "UnauthorizedAccess"
    /\ \E m \in Mints : IsSupportedActive(vault, m) /\ BalanceOf(vault, m) > 0

\* C9 (as claimed): while paused is true an ExecuteMultiSigTransaction is
\* rejected, makes no external call and leaves did_execute as it was.
C9_PausedRejectsExecute ==
    [][ (vault.paused /\ last'.op = "ExecuteMultiSigTransaction") =>
            (last'.res # "Ok" /\ vault' = vault /\ ext_calls' = ext_calls)
      ]_vars

(***************************************************************************)
(* Claims about the governance engine.                                     *)
(***************************************************************************)
\* C10 (as claimed): a governance proposal turns executed only if a
\* QueueProposal for it had succeeded and now has reached the eta it set.
C10_ExecutedOnlyAfterQueued ==
    [][ \A i \in DOMAIN vault.governance_proposals :
            ( /\ ~vault.governance_proposals[i].executed
              /\ vault'.governance_proposals[i].executed ) =>
                  ( /\ vault.governance_proposals[i].id \in queued
                    /\ now >= vault.governance_proposals[i].eta )
      ]_vars

\* The stored proposal with this id (ids are handed out once, in order).
Proposal(v, proposal_id) == v.governance_proposals[ProposalIndex(v, proposal_id)]
HasProposal(v, proposal_id) == ProposalIndex(v, proposal_id) # 0

\* C11 (as claimed): once cancelled, a proposal stays cancelled, and a
\* QueueProposal or ExecuteGovernanceProposal on it fails, leaving its eta and
\* executed as they were.
C11_CancelledIsTerminal ==
    [][ \A i \in DOMAIN vault.governance_proposals :
            vault.governance_proposals[i].cancelled =>
                /\ vault'.governance_proposals[i].cancelled
                /\ vault'.governance_proposals[i].eta = vault.governance_proposals[i].eta
                /\ vault'.governance_proposals[i].executed = vault.governance_proposals[i].executed
                /\ ( /\ last'.op \in {"QueueProposal", "ExecuteGovernanceProposal"}
                     /\ last'.id = vault.governance_proposals[i].id ) => last'.res # "Ok"
      ]_vars

\* C12 (as claimed): executed never returns to false, and in a state where a
\* proposal is executed an ExecuteGovernanceProposal for its id is rejected.
C12_ExecutedAtMostOnce ==
    \A i \in DOMAIN vault.governance_proposals :
        vault.governance_proposals[i].executed =>
            \A c \in GovCallers :
                ExecuteGovernanceProposal(vault, c, vault.governance_proposals[i].id, now).res # "Ok"

\* The vote records of one voter on one proposal.
VotesOf(v, voter, proposal_id) ==
    { k \in DOMAIN v.vote_records :
        v.vote_records[k].voter = voter /\ v.vote_records[k].proposal_id = proposal_id }

HasLock(v, time_lock_index) == time_lock_index < Len(v.time_locks)
Lock(v, time_lock_index) == v.time_locks[time_lock_index + 1]

\* C14: a claim on a cliff-only (non-linear) lock made at a time before the
\* lock's end_time fails and leaves the record, released_amount included, as
\* it was: nothing is releasable before end_time, also between cliff_time and
\* end_time.
C14_CliffOnlyWaitsForEnd ==
    [][ ( /\ last'.op = "ClaimTimeLock"
          /\ HasLock(vault, last'.id)
          /\ ~Lock(vault, last'.id).is_linear
          /\ now < Lock(vault, last'.id).end_time )
        => (last'.res # "Ok" /\ vault' = vault)
      ]_vars

\* C15: every stored time lock has released_amount <= amount, and the total
\* the token program has moved to the beneficiary of a lock, over all claims
\* of that lock, is at most the lock's amount: it is so for every stored lock,
\* and no claim the handler accepts in this state takes it beyond.
C15_ReleasedWithinAmount ==
    \A i \in DOMAIN vault.time_locks :
        /\ vault.time_locks[i].released_amount <= vault.time_locks[i].amount
        /\ paid[i] <= vault.time_locks[i].amount
        /\ \A c \in ClaimCallers, transfer_ok \in BOOLEAN :
            LET r == ClaimTimeLock(vault, c, i - 1, now, transfer_ok, overflow_checks)
            IN  r.res = "Ok" => paid[i] + r.transfer <= vault.time_locks[i].amount

SumBalances(v) ==
    LET RECURSIVE Sum(_)
        Sum(i) == IF i = 0 THEN 0 ELSE v.token_balances[i].balance + Sum(i - 1)
    IN  Sum(Len(v.token_balances))

\* C17: in every reachable state total_value_locked is the sum of the
\* recorded balances of all assets.
C17_ValueLockedIsSumOfBalances ==
    vault.total_value_locked = SumBalances(vault)

\* C18: for every asset the recorded balance is the asset's total_deposited
\* minus its total_withdrawn (and so is not negative: no subtraction has
\* wrapped), whatever deposits and withdrawals succeeded or failed before.
C18_BalanceIsDepositedMinusWithdrawn ==
    \A b \in DOMAIN vault.token_balances :
        LET s == MintIndex(vault.supported_tokens, vault.token_balances[b].mint)
        IN  /\ s # 0
            /\ vault.token_balances[b].balance =
                  vault.supported_tokens[s].total_deposited
                      - vault.supported_tokens[s].total_withdrawn

C20_CreateAppendsOne ==
    \A c \in MsCallers, target \in Targets, accounts_empty \in BOOLEAN :
        LET r == CreateMultiSigTransaction(vault, c, target, accounts_empty)
            n == Len(vault.multi_sig_transactions)
            created == r.vault.multi_sig_transactions
        IN  IF vault.multi_sig.some /\ Contains(vault.multi_sig.owners, c) /\ ~accounts_empty
            THEN /\ r.res = "Ok"
                 /\ Len(created) = n + 1
                 /\ SubSeq(created, 1, n) = vault.multi_sig_transactions
                 /\ created[n + 1].did_execute = FALSE
                 /\ created[n + 1].target = target
                 /\ Len(created[n + 1].signers) = Len(vault.multi_sig.owners)
                 /\ \A i \in DOMAIN vault.multi_sig.owners :
                        created[n + 1].signers[i] = (vault.multi_sig.owners[i] = c)
                 /\ r.vault = [vault EXCEPT !.multi_sig_transactions = created]
            ELSE /\ r.vault = vault
                 /\ r.res = IF ~vault.multi_sig.some THEN "MultisigNotInitialized"
                            ELSE IF ~Contains(vault.multi_sig.owners, c) THEN "InvalidOwner"
                            ELSE "InvalidTransactionData"

\* C20 witness: the second of two owners proposed a transaction, which was
\* stored at index 0 with the second approval slot set and the first unset.
C20_Witness ==
    /\ last.op = "CreateMultiSigTransaction"
    /\ last.res = "Ok"
    /\ last.id = 0
    /\ vault.multi_sig.some
    /\ Len(vault.multi_sig.owners) = 2
    /\ vault.multi_sig.owners[2] = last.caller
    /\ Len(vault.multi_sig_transactions) = 1
    /\ vault.multi_sig_transactions[1].signers = <<FALSE, TRUE>>
    /\ ~vault.multi_sig_transactions[1].did_execute

\* C21: an approve of a pending transaction sets the slot of the calling owner
\* and no other and changes nothing else; it is refused, the record unchanged,
\* with TransactionNotFound for an id that is not stored, with InvalidOwner
\* for a caller who is not an owner, and with TransactionAlreadySigned for an
\* owner whose slot is set; the proposer, whose slot is set at creation, is
\* never accepted as an approver, so that no owner counts twice.
C21_ApproveSetsOwnSlotOnce ==
    \A c \in MsCallers, id \in 0 .. MaxTx :
        LET r == ApproveMultiSigTransaction(vault, c, id)
        IN  vault.multi_sig.some =>
            /\ ~Stored(vault, id) => r = Result("TransactionNotFound", vault)
            /\ Pending(vault, id) =>
                LET k == Position(vault.multi_sig.owners, c)
                    signers == Tx(vault, id).signers
                IN  /\ k = 0 => r = Result("InvalidOwner", vault)
                    /\ (k \in DOMAIN signers /\ signers[k]) =>
                            r = Result("TransactionAlreadySigned", vault)
                    /\ r.res = "Ok" =>
                        /\ k \in DOMAIN signers /\ ~signers[k]
                        /\ r.vault = [vault EXCEPT
                                !.multi_sig_transactions[id + 1].signers[k] = TRUE]
                    /\ r.res # "Ok" => r.vault = vault
                    /\ Tx(vault, id).proposer = c => r.res # "Ok"

Repeats(owners) ==
    \E i, j \in DOMAIN owners : i # j /\ owners[i] = owners[j]

\* C23: the owners of a configured multisig are pairwise distinct; a
\* SetMultiSigOwners with a list that repeats a principal is refused and
\* leaves the record unchanged; one with a list that does not is accepted,
\* stores the list as the owners, lowers the threshold to the length of the
\* list if it exceeded it and leaves it alone otherwise, and changes nothing
\* else.
C23_SetOwnersClampsThreshold ==
    vault.multi_sig.some =>
        /\ ~Repeats(vault.multi_sig.owners)
        /\ \A c \in MsCallers, owners \in OwnerLists :
            LET r == SetMultiSigOwners(vault, c, owners)
                old == vault.multi_sig.threshold
            IN  IF Repeats(owners)
                THEN r.res # "Ok" /\ r.vault = vault
                ELSE /\ r.res = "Ok"
                     /\ r.vault = [vault EXCEPT
                            !.multi_sig.owners = owners,
                            !.multi_sig.threshold =
                                IF old <= Len(owners) THEN old ELSE Len(owners)]

\* C23 witness: the owners were replaced by the empty list and the threshold,
\* which the other handlers keep at 1 or more, was lowered to 0 with it.
C23_Witness ==
    /\ last.op = "SetMultiSigOwners"
    /\ last.res = "Ok"
    /\ vault.multi_sig.some
    /\ vault.multi_sig.owners = <<>>
    /\ vault.multi_sig.threshold = 0

\* C24: for every amount of the u64 range and every fee rate bps of
\* [0, 10000] the fee computed is the floor of amount * bps / 10000 (the
\* integer fee with fee * 10000 <= amount * bps < (fee + 1) * 10000), the
\* product does not overflow the intermediate type, and fee <= amount.
C24_FeeIsFloorAndAtMostAmount ==
    /\ last.op = "calculate_fee" =>
        LET amount == last.id
            bps == vault.fee_config.deposit_fee_bps
            fee == last.res
        IN  /\ bps \in 0 .. BpsDenominator
            /\ ~Mul128Overflows(amount, bps)
            /\ fee * BpsDenominator <= amount * bps
            /\ amount * bps < (fee + 1) * BpsDenominator
            /\ fee <= amount
    /\ \A amount \in 0 .. U64 - 1 :
        LET fee == CalculateFee(amount, vault.fee_config.withdrawal_fee_bps)
        IN  /\ fee * BpsDenominator <= amount * vault.fee_config.withdrawal_fee_bps
            /\ amount * vault.fee_config.withdrawal_fee_bps < (fee + 1) * BpsDenominator
            /\ fee <= amount

\* C24 witness: the fee of the largest u64 amount at 9999 basis points was
\* computed, and it is one less than the amount.
C24_Witness ==
    /\ last.op = "calculate_fee"
    /\ last.id = U64 - 1
    /\ vault.fee_config.deposit_fee_bps = 9999
    /\ last.res = U64 - 2

\* total_deposited of an asset, 0 for an asset that is not supported
TotalDeposited(v, mint) ==
    LET s == MintIndex(v.supported_tokens, mint)
    IN  IF s = 0 THEN 0 ELSE v.supported_tokens[s].total_deposited

\* C25: a successful Deposit of gross amount g of an active asset, with
\* f the floor of g * deposit_fee_bps / 10000, increases the balance of that
\* asset, its total_deposited and total_value_locked each by exactly g - f
\* and total_fees_collected by exactly f and changes the balance of no other
\* asset; a Deposit of an unknown or inactive asset fails with the vault
\* unchanged.  The gross amounts are those the token account of the vault
\* can still take in: the recorded balance plus g stays in the u64 range.
C25_DepositAddsNetAndFee ==
    \A mint \in Mints, g \in 0 .. U64 - 1 :
        LET r == Deposit(vault, "o1", mint, g, TRUE, now, overflow_checks)
            f == (g * vault.fee_config.deposit_fee_bps) \div BpsDenominator
        IN  IF ~IsSupportedActive(vault, mint)
            THEN r.res # "Ok" /\ r.vault = vault
            ELSE (r.res = "Ok" /\ BalanceOf(vault, mint) + g < U64) =>
                    /\ BalanceOf(r.vault, mint) = BalanceOf(vault, mint) + (g - f)
                    /\ TotalDeposited(r.vault, mint) = TotalDeposited(vault, mint) + (g - f)
                    /\ r.vault.total_value_locked = vault.total_value_locked + (g - f)
                    /\ r.vault.total_fees_collected = vault.total_fees_collected + f
                    /\ \A other \in Mints \ {mint} :
                            BalanceOf(r.vault, other) = BalanceOf(vault, other)

\* C26: a Withdraw of gross amount g succeeds only if the recorded balance of
\* the asset is at least g before the fee, and otherwise fails with the vault
\* unchanged; on success, with f the floor of g * withdrawal_fee_bps / 10000,
\* the balance and total_value_locked decrease by exactly g - f and
\* total_fees_collected increases by exactly f.
C26_WithdrawTakesNetAndFee ==
    \A caller \in LedgerCallers, mint \in Mints, g \in 0 .. U64 - 1 :
        LET r == Withdraw(vault, caller, mint, g, TRUE, now, overflow_checks)
            f == (g * vault.fee_config.withdrawal_fee_bps) \div BpsDenominator
        IN  IF BalanceOf(vault, mint) < g
            THEN r.res # "Ok" /\ r.vault = vault
            ELSE r.res = "Ok" =>
                    /\ BalanceOf(r.vault, mint) = BalanceOf(vault, mint) - (g - f)
                    /\ r.vault.total_value_locked = vault.total_value_locked - (g - f)
                    /\ r.vault.total_fees_collected = vault.total_fees_collected + f

\* C27: from a state where both succeed, a Deposit of gross amount g followed
\* by a Withdraw of the same gross amount g, under equal deposit and
\* withdrawal fee rates, leaves the balance of the asset and
\* total_value_locked where they were (the net change is the withdrawal fee
\* minus the deposit fee, which is 0, and so within the sum of the two fees),
\* and total_fees_collected grows by exactly the sum of the two fees.
C27_RoundTripKeepsValue ==
    \A mint \in Mints, g \in 0 .. U64 - 1 :
        LET d == Deposit(vault, "o1", mint, g, TRUE, now, overflow_checks)
            w == Withdraw(d.vault, "o1", mint, g, TRUE, now, overflow_checks)
            fee_deposit == (g * vault.fee_config.deposit_fee_bps) \div BpsDenominator
            fee_withdraw == (g * vault.fee_config.withdrawal_fee_bps) \div BpsDenominator
        IN  ( /\ vault.fee_config.deposit_fee_bps = vault.fee_config.withdrawal_fee_bps
              /\ d.res = "Ok"
              /\ w.res = "Ok" ) =>
                /\ fee_withdraw - fee_deposit = 0
                /\ BalanceOf(w.vault, mint) = BalanceOf(vault, mint)
                /\ w.vault.total_value_locked = vault.total_value_locked
                /\ w.vault.total_fees_collected =
                        vault.total_fees_collected + fee_deposit + fee_withdraw

\* What a linear lock has vested at time t, start_time <= t: the floor of
\* amount * (t - start_time) / (end_time - start_time), all of it from end_time on.
LinearVested(amount, start_time, end_time, t) ==
    IF t >= end_time THEN amount
    ELSE (amount * (t - start_time)) \div (end_time - start_time)

\* C28: a claim of a linear lock at time t with start_time <= t < end_time
\* releases exactly floor(amount * (t - start_time) / (end_time - start_time))
\* - released_amount, and one at t >= end_time the remainder amount -
\* released_amount, whenever that is positive and the ledger holds it: for a
\* stored lock whose cliff has passed, and for a lock created with no cliff
\* at any time from its creation on (half of the amount at half of the
\* duration, all of it at the end).
C28_LinearReleaseIsProRata ==
    /\ \A i \in DOMAIN vault.time_locks :
        LET time_lock == vault.time_locks[i]
            expected == LinearVested(time_lock.amount, time_lock.start_time,
                                     time_lock.end_time, now) - time_lock.released_amount
            r == ClaimTimeLock(vault, time_lock.beneficiary, i - 1, now, TRUE, overflow_checks)
        IN  ( /\ time_lock.is_linear
              /\ now >= time_lock.cliff_time
              /\ expected > 0
              /\ vault.legacy_total_deposited >= expected ) =>
                    r.res = "Ok" /\ r.transfer = expected
    /\ \A amount \in LockAmounts, duration \in Durations, t \in now .. now + MaxTime :
        LET c == CreateTimeLock(vault, Authority, "o1", amount, duration,
                                [some |-> FALSE], TRUE, now)
            expected == LinearVested(amount, now, now + duration, t)
            r == ClaimTimeLock(c.vault, "o1", Len(vault.time_locks), t, TRUE, overflow_checks)
        IN  ( /\ c.res = "Ok"
              /\ expected > 0
              /\ vault.legacy_total_deposited >= expected ) =>
                    r.res = "Ok" /\ r.transfer = expected

\* C29: when ClaimTimeLock is called twice with the same index at the same
\* timestamp and the first call is accepted, the second call is rejected,
\* releases nothing and leaves the record as the first call wrote it: no
\* released_amount of any lock, nor the ledger balance, nor
\* total_value_locked changes.
C29_SecondClaimReleasesNothing ==
    \A caller \in ClaimCallers, time_lock_index \in 0 .. MaxLocks :
        LET first == ClaimTimeLock(vault, caller, time_lock_index, now, TRUE, overflow_checks)
            second == ClaimTimeLock(first.vault, caller, time_lock_index, now, TRUE,
                                    overflow_checks)
        IN  first.res = "Ok" =>
                /\ second.res # "Ok"
                /\ second.transfer = 0
                /\ second.vault = first.vault

\* C30: a successful ClaimTimeLock that releases r > 0 finds at least r in
\* the ledger, decreases the ledger balance and total_value_locked by exactly
\* r without underflow, and increases the released_amount of the lock by
\* exactly r; the lock is removed if and only if its released_amount then
\* equals its amount; the beneficiary, amount and released_amount of every
\* other lock are unchanged.
C30_ClaimMovesExactlyTheRelease ==
    \A caller \in ClaimCallers, time_lock_index \in 0 .. MaxLocks :
        LET k == ClaimTimeLock(vault, caller, time_lock_index, now, TRUE, overflow_checks)
            r == k.transfer
            i == time_lock_index + 1
            removed == Len(k.vault.time_locks) < Len(vault.time_locks)
            Same(a, b) == /\ a.beneficiary = b.beneficiary
                          /\ a.amount = b.amount
                          /\ a.released_amount = b.released_amount
        IN  k.res = "Ok" =>
                /\ r > 0
                /\ vault.legacy_total_deposited >= r
                /\ vault.total_value_locked >= r
                /\ k.vault.legacy_total_deposited = vault.legacy_total_deposited - r
                /\ k.vault.total_value_locked = vault.total_value_locked - r
                /\ removed <=> (vault.time_locks[i].released_amount + r = vault.time_locks[i].amount)
                /\ IF removed
                   THEN /\ Len(k.vault.time_locks) = Len(vault.time_locks) - 1
                        /\ \A j \in DOMAIN k.vault.time_locks :
                            Same(k.vault.time_locks[j],
                                 vault.time_locks[IF j < i THEN j ELSE j + 1])
                   ELSE /\ Len(k.vault.time_locks) = Len(vault.time_locks)
                        /\ k.vault.time_locks[i].released_amount =
                                vault.time_locks[i].released_amount + r
                        /\ \A j \in DOMAIN vault.time_locks \ {i} :
                            Same(k.vault.time_locks[j], vault.time_locks[j])

Tallies(proposal) ==
    <<proposal.for_votes, proposal.against_votes, proposal.abstain_votes>>

TotalVotes(proposal) ==
    proposal.for_votes + proposal.against_votes + proposal.abstain_votes

ApprovalRatio(proposal) ==
    IF proposal.for_votes + proposal.against_votes = 0 THEN 0
    ELSE (proposal.for_votes * BpsDenominator)
            \div (proposal.for_votes + proposal.against_votes)

\* C34: ExecuteGovernanceProposal is accepted only if approval_ratio >=
\* execution_threshold, abstentions not entering the ratio; with no vote for
\* or against, the ratio being 0, a request that has passed the tests before
\* the ratio is accepted exactly when execution_threshold = 0; and after a
\* request that failed the test of the ratio the proposal has
\* executed = false.
C34_ExecuteNeedsApprovalRatio ==
    [][ (last'.op = "ExecuteGovernanceProposal" /\ HasProposal(vault, last'.id)
            /\ vault.governance_config.some) =>
          LET proposal == Proposal(vault, last'.id)
              past_eta == now >= proposal.eta
          IN  /\ last'.res = "Ok" =>
                    ApprovalRatio(proposal) >= vault.governance_config.execution_threshold
              /\ (past_eta /\ proposal.for_votes + proposal.against_votes = 0) =>
                    (last'.res = "Ok" <=> vault.governance_config.execution_threshold = 0)
              /\ (past_eta /\ last'.res # "Ok") =>
                    Proposal(vault', last'.id).executed = FALSE
      ]_vars

\* C35: CancelGovernanceProposal is accepted only from the proposer of the
\* proposal or the emergency admin and only while the proposal has
\* executed = false; a refused request leaves the record unchanged; and no
\* executed proposal turns cancelled.
C35_CancelOnlyBeforeExecution ==
    [][ /\ (last'.op = "CancelGovernanceProposal" /\ last'.res = "Ok") =>
              /\ HasProposal(vault, last'.id)
              /\ \/ Proposal(vault, last'.id).proposer = last'.caller
                 \/ vault.emergency_admin = last'.caller
              /\ ~Proposal(vault, last'.id).executed
        /\ (last'.op = "CancelGovernanceProposal" /\ last'.res # "Ok") => vault' = vault
        /\ \A i \in DOMAIN vault.governance_proposals :
              ( /\ vault.governance_proposals[i].executed
                /\ ~vault.governance_proposals[i].cancelled ) =>
                    ~vault'.governance_proposals[i].cancelled
      ]_vars

\* C36: CreateGovernanceProposal is accepted only if governance_config is set
\* and the voting weight of the proposer is at least proposal_threshold; the
\* new proposal has start_time = now, end_time = now + voting_period, the
\* three tallies 0, executed = cancelled = false, no eta (0), and the running
\* counter as its id, so that the ids of the stored proposals are strictly
\* increasing in the order of creation (and pairwise distinct).
C36_CreateProposalChecksAndFields ==
    [][ /\ (last'.op = "CreateGovernanceProposal" /\ last'.res = "Ok") =>
              /\ vault.governance_config.some
              /\ VotingWeight(last'.caller) >= vault.governance_config.proposal_threshold
              /\ Len(vault'.governance_proposals) = Len(vault.governance_proposals) + 1
              /\ LET proposal == vault'.governance_proposals[Len(vault'.governance_proposals)]
                 IN  /\ proposal.id = vault.next_governance_proposal_id
                     /\ proposal.proposer = last'.caller
                     /\ proposal.start_time = now
                     /\ proposal.end_time = now + vault.governance_config.voting_period
                     /\ Tallies(proposal) = <<0, 0, 0>>
                     /\ ~proposal.executed
                     /\ ~proposal.cancelled
                     /\ proposal.eta = 0
        /\ \A i, j \in DOMAIN vault'.governance_proposals :
              i < j => vault'.governance_proposals[i].id < vault'.governance_proposals[j].id
      ]_vars

\* C37: PauseVault issued by the emergency admin sets paused = true and
\* UnpauseVault issued by the emergency admin sets paused = false in the
\* stored vault record; either request from any other caller fails and
\* leaves paused unchanged.
C37_PauseOnlyByEmergencyAdmin ==
    [][ /\ last'.op = "PauseVault" =>
              IF last'.caller = vault.emergency_admin
              THEN last'.res = "Ok" /\ vault'.paused
              ELSE last'.res # "Ok" /\ vault'.paused = vault.paused
        /\ last'.op = "UnpauseVault" =>
              IF last'.caller = vault.emergency_admin
              THEN last'.res = "Ok" /\ ~vault'.paused
              ELSE last'.res # "Ok" /\ vault'.paused = vault.paused
      ]_vars

\* C38: after an accepted TransferAuthority(new_authority) of the current
\* authority, vault.authority is new_authority, and an UpdateEmergencyAdmin(
\* new_admin) of new_authority that follows it is accepted and sets
\* emergency_admin to new_admin; a TransferAuthority of any other principal
\* fails and changes neither authority nor emergency_admin.
C38_AuthorityHandOver ==
    [][ /\ last'.op = "TransferAuthority" =>
              IF last'.caller = vault.authority
              THEN last'.res = "Ok" => vault'.authority = last'.principal
              ELSE /\ last'.res # "Ok"
                   /\ vault'.authority = vault.authority
                   /\ vault'.emergency_admin = vault.emergency_admin
        /\ ( /\ last.op = "TransferAuthority"
             /\ last.res = "Ok"
             /\ last'.op = "UpdateEmergencyAdmin"
             /\ last'.caller = last.principal ) =>
                 /\ last'.res = "Ok"
                 /\ vault'.emergency_admin = last'.principal
      ]_vars

\* C39: a multisig transaction is executed only if at least threshold distinct
\* current owners have each proposed or approved it: in every reachable state
\* the approval bitset of each stored, unexecuted transaction has exactly one
\* slot per current owner, and a set slot i means that the current owner at
\* index i proposed or approved that transaction (the slot was set by that
\* owner's request, or the owner held a set slot before the step), also after
\* SetMultiSigOwners or a repeated InitializeMultiSig; approve and execute
\* never index outside the bitset.
C39_ApprovalsBelongToCurrentOwners ==
    [][ /\ \A t \in DOMAIN vault'.multi_sig_transactions :
              LET after == vault'.multi_sig_transactions[t]
              IN  ~after.did_execute =>
                  /\ Len(after.signers) = Len(vault'.multi_sig.owners)
                  /\ \A i \in DOMAIN after.signers :
                        after.signers[i] =>
                            LET owner == vault'.multi_sig.owners[i]
                            IN  \/ /\ last'.op \in { "CreateMultiSigTransaction",
                                                     "ApproveMultiSigTransaction" }
                                   /\ last'.res = "Ok"
                                   /\ last'.caller = owner
                                   /\ last'.id = t - 1
                                \/ /\ t \in DOMAIN vault.multi_sig_transactions
                                   /\ \E k \in DOMAIN vault.multi_sig_transactions[t].signers :
                                        /\ k \in DOMAIN vault.multi_sig.owners
                                        /\ vault.multi_sig.owners[k] = owner
                                        /\ vault.multi_sig_transactions[t].signers[k]
        /\ (last'.op = "ExecuteMultiSigTransaction" /\ last'.res = "Ok") =>
              LET before == vault.multi_sig_transactions[last'.id + 1]
              IN  Cardinality({ i \in DOMAIN before.signers \cap DOMAIN vault.multi_sig.owners :
                                    before.signers[i] }) >= vault.multi_sig.threshold
        /\ last'.res # "Panic"
      ]_vars

\* The sum of voting_power over the first n vote records of one proposal
\* with one choice.
RECURSIVE SumPower(_, _, _, _)
SumPower(records, proposal_id, vote_type, n) ==
    IF n = 0 THEN 0
    ELSE SumPower(records, proposal_id, vote_type, n - 1)
         + ( IF /\ records[n].proposal_id = proposal_id
                /\ records[n].vote_type = vote_type
             THEN records[n].voting_power ELSE 0 )

Recorded(v, proposal_id) ==
    << SumPower(v.vote_records, proposal_id, "For", Len(v.vote_records)),
       SumPower(v.vote_records, proposal_id, "Against", Len(v.vote_records)),
       SumPower(v.vote_records, proposal_id, "Abstain", Len(v.vote_records)) >>

TalliesMatchRecords(v) ==
    \A i \in DOMAIN v.governance_proposals :
        Tallies(v.governance_proposals[i]) = Recorded(v, v.governance_proposals[i].id)

====
